---- MODULE Spec2Model ----
(***************************************************************************)
(* A model of the reverse-mode automatic differentiation engine of         *)
(* include/autodiff/value.h, include/autodiff/util.h and src/value.tpp.    *)
(*                                                                         *)
(* The heap of _ValueData nodes is the sequence `nodes`; a node is named   *)
(* by its index, and a child link (a shared_ptr in m_children) is the      *)
(* index of the child.  A float is modelled by an exact fraction (see      *)
(* Rat), a Vec/Mat by its shape and its row-major list of elements.        *)
(***************************************************************************)
EXTENDS Integers, Sequences, FiniteSets, TLC

VARIABLES nodes,   \* the _ValueData objects, in order of construction
          handles, \* the _ValueWrapper objects of the program: the node each
                   \* one owns, 0 once the handle is destroyed
          origin,  \* history: how each node was constructed
          ret,     \* the last call of the public API and its outcome
          nupd,    \* number of successful update() calls so far
          pc       \* position of the calling program ("api": any call may follow)

vars == <<nodes, handles, origin, ret, nupd, pc>>

(***************************************************************************)
(* float.  <<n, d>> is the fraction n/d in lowest terms with d >= 0; d = 0 *)
(* holds the non-finite floats: <<1,0>> is +inf, <<-1,0>> is -inf and      *)
(* <<0,0>> is NaN, so that division by zero yields what the float does.    *)
(***************************************************************************)
Abs(x) == IF x < 0 THEN -x ELSE x

Sgn(x) == IF x < 0 THEN -1 ELSE IF x > 0 THEN 1 ELSE 0

RECURSIVE Gcd(_, _)
Gcd(a, b) == IF b = 0 THEN a ELSE Gcd(b, a % b)

Rat(n, d) ==
    IF d = 0 THEN <<Sgn(n), 0>>
    ELSE LET g == Gcd(Abs(n), Abs(d))
             s == Sgn(d)
         IN  <<(s * n) \div g, (s * d) \div g>>

Int2R(n) == <<n, 1>>

Zero == Int2R(0)

One == Int2R(1)

\* no float stored in the heap has a numerator or denominator beyond this
MaxMagnitude == 100

\* Arithmetic is carried out on numerators and denominators up to FloatRange;
\* an operation on anything larger yields OutOfRange, which no state holds.
FloatRange == 2 * MaxMagnitude * MaxMagnitude

OutOfRange == <<0, -1>>

InRange(x) == x[2] >= 0 /\ Abs(x[1]) <= FloatRange /\ x[2] <= FloatRange

RNeg(x) == <<-x[1], x[2]>>

RMul(x, y) ==
    IF ~InRange(x) \/ ~InRange(y) THEN OutOfRange
    ELSE Rat(x[1] * y[1], x[2] * y[2])

RAdd(x, y) ==
    IF ~InRange(x) \/ ~InRange(y) THEN OutOfRange
    ELSE IF x[2] = 0 /\ y[2] = 0
    THEN (IF x = y THEN x ELSE <<0, 0>>)
    ELSE Rat(x[1] * y[2] + y[1] * x[2], x[2] * y[2])

RSub(x, y) == RAdd(x, RNeg(y))

RInv(y) ==
    IF ~InRange(y) THEN OutOfRange
    ELSE IF y[1] < 0 THEN <<-y[2], -y[1]>> ELSE <<y[2], y[1]>>

RDiv(x, y) == RMul(x, RInv(y))

\* x > 0 on floats (false for NaN)
RPos(x) == x[1] > 0

\* the largest exponent, in absolute value, of a power that is computed
MaxExponent == 4

\* std::pow(x, e) for an exponent e that is a whole number: 1 for e = 0,
\* repeated products for e > 0 and their inverse for e < 0 (so 0^-1 is +inf).
\* Any other exponent has no exact fraction as its power: OutOfRange.
RECURSIVE RPow(_, _)
RPow(x, e) ==
    IF e[2] # 1 \/ Abs(e[1]) > MaxExponent \/ ~InRange(x) THEN OutOfRange
    ELSE IF e[1] = 0 THEN One
    ELSE IF e[1] > 0 THEN RMul(x, RPow(x, <<e[1] - 1, 1>>))
    ELSE RInv(RPow(x, <<-e[1], 1>>))

(***************************************************************************)
(* The shapes: a scalar (float), common::Vec<float, N> and                 *)
(* common::Mat<float, R, C>, each with its elements in row-major order.    *)
(***************************************************************************)
Scalar(x) == [k |-> "s", r |-> 1, c |-> 1, d |-> <<x>>]

Vec(xs) == [k |-> "v", r |-> Len(xs), c |-> 1, d |-> xs]

Mat(r, c, xs) == [k |-> "m", r |-> r, c |-> c, d |-> xs]

is_scalar(t) == t.k = "s"

is_vec(t) == t.k = "v"

is_mat(t) == t.k = "m"

SameShape(a, b) == a.k = b.k /\ a.r = b.r /\ a.c = b.c

\* T(x): every element of a value of t's shape set to the float x
Fill(t, x) == [t EXCEPT !.d = [i \in 1..Len(t.d) |-> x]]

Ones(t) == Fill(t, One)

El(t, i) == IF is_scalar(t) THEN t.d[1] ELSE t.d[i]

At(m, i, j) == m.d[(i - 1) * m.c + j]

\* an element-wise operator of the vector library, a scalar operand broadcast
Ewise(F(_, _), a, b) ==
    LET shape == IF is_scalar(a) THEN b ELSE a
    IN  [shape EXCEPT !.d = [i \in 1..Len(shape.d) |-> F(El(a, i), El(b, i))]]

RECURSIVE SeqSum(_)
SeqSum(s) == IF s = <<>> THEN Zero ELSE RAdd(Head(s), SeqSum(Tail(s)))

\* Mat * Vec of the vector library
MatVec(m, v) ==
    Vec([i \in 1..m.r |-> SeqSum([j \in 1..m.c |-> RMul(At(m, i, j), v.d[j])])])

Transpose(m) ==
    Mat(m.c, m.r, [p \in 1..(m.r * m.c) |->
                      At(m, ((p - 1) % m.r) + 1, ((p - 1) \div m.r) + 1)])

TAdd(a, b) == Ewise(RAdd, a, b)

TSub(a, b) == Ewise(RSub, a, b)

TDiv(a, b) == Ewise(RDiv, a, b)

TMul(a, b) == IF is_mat(a) /\ is_vec(b) THEN MatVec(a, b) ELSE Ewise(RMul, a, b)

TNeg(a) == [a EXCEPT !.d = [i \in 1..Len(a.d) |-> RNeg(a.d[i])]]

\* the operand shapes for which `a op b` exists
\* (a product or quotient with a matrix operand is modelled for Mat * Vec only)
Supported(op, a, b) ==
    \/ op \in {"+", "-"} /\ (is_scalar(a) \/ is_scalar(b) \/ SameShape(a, b))
    \/ op \in {"*", "/"} /\ ~is_mat(a) /\ ~is_mat(b)
          /\ (is_scalar(a) \/ is_scalar(b) \/ SameShape(a, b))
    \/ op = "*" /\ is_mat(a) /\ is_vec(b) /\ a.c = b.r

Apply(op, a, b) ==
    CASE op = "+" -> TAdd(a, b)
      [] op = "-" -> TSub(a, b)
      [] op = "*" -> TMul(a, b)
      [] op = "/" -> TDiv(a, b)

(***************************************************************************)
(* util.h: namespace detail                                                *)
(***************************************************************************)
\* the first component in place of the sum of all of them
detail_sum_first(v) == v.d[1]

\* detail::sum
detail_sum(v) == SeqSum(v.d)

\* detail::pow: base.pow(exponent) elementwise, std::pow for a float
detail_pow(base, exponent) ==
    [base EXCEPT !.d = [i \in 1..Len(base.d) |-> RPow(base.d[i], exponent.d[1])]]

\* detail::ewise_mult
ewise_mult(lhs, rhs) ==
    [lhs EXCEPT !.d = [i \in 1..Len(lhs.d) |-> RMul(lhs.d[i], rhs.d[i])]]

\* the reduction left out: the upstream gradient passed through as it is
sum_if_scalar_never(t, v) == v

\* sum_if_scalar<T>(v), T the type of the value t
sum_if_scalar(t, v) == IF is_scalar(t) THEN Scalar(detail_sum(v)) ELSE v

\* the gradient let through whatever the sign of cond
relu_helper_ungated(cond, v) == v

\* the scalar case of the earlier revision (autodiff.h:87): v > 0 ? v : 0
relu_helper_old(cond, v) ==
    IF is_scalar(v)
    THEN Scalar(IF RPos(v.d[1]) THEN v.d[1] ELSE Zero)
    ELSE [v EXCEPT !.d = [i \in 1..Len(v.d) |->
                             IF RPos(cond.d[i]) THEN v.d[i] ELSE Zero]]

relu_helper(cond, v) ==
    [v EXCEPT !.d = [i \in 1..Len(v.d) |->
                        IF RPos(cond.d[i]) THEN v.d[i] ELSE Zero]]

\* the factor brother_value left out of the product
compute_grad_mult_unscaled(R, parent_grad, brother_value) ==
    IF is_vec(R) /\ is_mat(brother_value)
    THEN TMul(Transpose(brother_value), parent_grad)
    ELSE IF is_mat(R) /\ is_vec(brother_value)
    THEN Mat(R.r, R.c, [p \in 1..(R.r * R.c) |->
             RMul(parent_grad.d[((p - 1) \div R.c) + 1],
                  brother_value.d[((p - 1) % R.c) + 1])])
    ELSE sum_if_scalar(R, parent_grad)

\* the outer product written to result(i, j) in column-major order
compute_grad_mult_column_major(R, parent_grad, brother_value) ==
    IF is_vec(R) /\ is_mat(brother_value)
    THEN TMul(Transpose(brother_value), parent_grad)
    ELSE IF is_mat(R) /\ is_vec(brother_value)
    THEN Mat(R.r, R.c, [p \in 1..(R.r * R.c) |->
             RMul(parent_grad.d[((p - 1) % R.r) + 1],
                  brother_value.d[((p - 1) \div R.r) + 1])])
    ELSE sum_if_scalar(R, TMul(brother_value, parent_grad))

\* compute_grad_mult<R>(parent_grad, brother_value), R the type of the value R
compute_grad_mult(R, parent_grad, brother_value) ==
    IF is_vec(R) /\ is_mat(brother_value)
    THEN TMul(Transpose(brother_value), parent_grad)
    ELSE IF is_mat(R) /\ is_vec(brother_value)
    THEN Mat(R.r, R.c, [p \in 1..(R.r * R.c) |->
             RMul(parent_grad.d[((p - 1) \div R.c) + 1],
                  brother_value.d[((p - 1) % R.c) + 1])])
    ELSE sum_if_scalar(R, TMul(brother_value, parent_grad))

(***************************************************************************)
(* value.h: _ValueData and _ValueWrapper                                   *)
(***************************************************************************)
\* the _ValueData constructor: m_grad(1.0f), m_has_grad(false),
\* m_requires_grad(true), m_parent(nullptr).  backward_f names the pair of
\* closures (m_backward_f, m_to_string) the op passed; use_count is the
\* count of the shared_ptr that own the node: 1, the m_ptr of the new handle,
\* and 0 once the node is released.
ValueData(value, backward_f, op_name, children) ==
    [value         |-> value,
     grad          |-> Ones(value),
     has_grad      |-> FALSE,
     requires_grad |-> TRUE,
     backward_f    |-> backward_f,
     op_name       |-> op_name,
     parent        |-> 0,
     children      |-> children,
     use_count     |-> 1]

\* a child kept by a pointer that does not own it
AD_CHILD_borrowed(ns, x) == ns

\* AD_CHILD(x): a copy of x.m_ptr, kept in the m_children of the new node
AD_CHILD(ns, x) == [ns EXCEPT ![x].use_count = @ + 1]

RECURSIVE reset(_, _)
RECURSIVE reset_all(_, _)

\* the destructor of one shared_ptr that owns node i: the last owner destroys
\* the node and with it the shared_ptr of its m_children
reset(ns, i) ==
    IF ns[i].use_count > 1
    THEN [ns EXCEPT ![i].use_count = @ - 1]
    ELSE reset_all([ns EXCEPT ![i].use_count = 0], ns[i].children)

reset_all(ns, children) ==
    IF children = <<>> THEN ns
    ELSE reset_all(reset(ns, Head(children)), Tail(children))

\* the public constructor of a handle: a leaf, whose backward_f does nothing
Value(x) == ValueData(x, "leaf", "Value", <<>>)

\* the temporary left with the constructor's m_requires_grad(true)
TempValue_keeps_flag(x) == Value(x)

\* _ValueWrapper::TempValue

TempValue(x) == [Value(x) EXCEPT !.requires_grad = FALSE]

\* the operand made Built again when a new op takes it
set_parent_resets(ns, i, p) == [ns EXCEPT ![i].parent = p, ![i].has_grad = FALSE]

\* the link to the parent kept among the children of the operand
set_parent_linking(ns, i, p) ==
    [ns EXCEPT ![i].parent = p, ![i].children = Append(@, p)]

\* _ValueWrapper::set_parent
set_parent(ns, i, p) == [ns EXCEPT ![i].parent = p]

\* the gradient of + taken from the node's value instead of its gradient
lhs_grad_from_value(ns, v) ==
    LET n   == ns[v]
        lhs == ns[n.children[1]]
        rhs == ns[n.children[2]]
    IN  CASE n.backward_f = "+" -> sum_if_scalar(lhs.value, n.value)
          [] n.backward_f = "-" -> sum_if_scalar(lhs.value, n.grad)
          [] n.backward_f = "*" -> compute_grad_mult(lhs.value, n.grad, rhs.value)
          [] n.backward_f = "/" -> sum_if_scalar(lhs.value, TDiv(n.grad, rhs.value))

\* lhs_grad of AD_BINARY_OP(op, lhs_grad, rhs_grad), for the node v of heap ns
lhs_grad(ns, v) ==
    LET n   == ns[v]
        lhs == ns[n.children[1]]
        rhs == ns[n.children[2]]
    IN  CASE n.backward_f = "+" -> sum_if_scalar(lhs.value, n.grad)
          [] n.backward_f = "-" -> sum_if_scalar(lhs.value, n.grad)
          [] n.backward_f = "*" -> compute_grad_mult(lhs.value, n.grad, rhs.value)
          [] n.backward_f = "/" -> sum_if_scalar(lhs.value, TDiv(n.grad, rhs.value))

\* the product rule of the right operand given its own value, where the two
\* operands have one shape
rhs_grad_own_value(ns, v) ==
    LET n   == ns[v]
        lhs == ns[n.children[1]]
        rhs == ns[n.children[2]]
    IN  CASE n.backward_f = "+" -> sum_if_scalar(rhs.value, n.grad)
          [] n.backward_f = "-" ->
                TMul(sum_if_scalar(rhs.value, n.grad), Scalar(Int2R(-1)))
          [] n.backward_f = "*" ->
                compute_grad_mult(rhs.value, n.grad,
                    IF SameShape(lhs.value, rhs.value) THEN rhs.value ELSE lhs.value)
          [] n.backward_f = "/" ->
                sum_if_scalar(rhs.value,
                    TDiv(TMul(n.grad, lhs.value), TMul(rhs.value, rhs.value)))

\* rhs_grad of AD_BINARY_OP(op, lhs_grad, rhs_grad)
rhs_grad(ns, v) ==
    LET n   == ns[v]
        lhs == ns[n.children[1]]
        rhs == ns[n.children[2]]
    IN  CASE n.backward_f = "+" -> sum_if_scalar(rhs.value, n.grad)
          [] n.backward_f = "-" ->
                TMul(sum_if_scalar(rhs.value, n.grad), Scalar(Int2R(-1)))
          [] n.backward_f = "*" -> compute_grad_mult(rhs.value, n.grad, lhs.value)
          [] n.backward_f = "/" ->
                sum_if_scalar(rhs.value,
                    TDiv(TMul(n.grad, lhs.value), TMul(rhs.value, rhs.value)))

\* the components g[j], j = i, i + N, i + 2N, ... below S * N (indices from 0),
\* which the backward closure of expand<N, S> adds up into child.m_grad[i]
expand_stride(g, S, N, i) ==
    [k \in 1..(((S * N - 1 - i) \div N) + 1) |-> g.d[i + (k - 1) * N + 1]]

\* the gradient added to what the child already holds
child_grad_accumulated(ns, v) ==
    LET n     == ns[v]
        child == ns[n.children[1]]
    IN  TAdd(child.grad,
             CASE n.backward_f = "neg"  -> TMul(n.grad, Scalar(Int2R(-1)))
               [] n.backward_f = "relu" -> relu_helper(n.value, n.grad)
               [] n.backward_f = "sum"  -> Fill(child.value, n.grad.d[1])
               [] n.backward_f = "expand_scalar" -> Scalar(detail_sum(n.grad))
               [] n.backward_f = "expand_vector" ->
                     LET S == Len(child.value.d)
                         N == Len(n.value.d) \div S
                     IN  Vec([i \in 1..S |->
                                SeqSum(expand_stride(n.grad, S, N, i - 1))]))

\* the gradient a one-operand node v writes to its child
child_grad(ns, v) ==
    LET n     == ns[v]
        child == ns[n.children[1]]
    IN  CASE n.backward_f = "neg"  -> TMul(n.grad, Scalar(Int2R(-1)))
          [] n.backward_f = "relu" -> relu_helper(n.value, n.grad)
          [] n.backward_f = "sum"  -> Fill(child.value, n.grad.d[1])
          [] n.backward_f = "expand_scalar" -> Scalar(detail_sum(n.grad))
          [] n.backward_f = "expand_vector" ->
                LET S == Len(child.value.d)
                    N == Len(n.value.d) \div S
                IN  Vec([i \in 1..S |->
                            RAdd(Zero, SeqSum(expand_stride(n.grad, S, N, i - 1)))])

\* the power rule with the exponent e kept in place of e - 1
base_grad_same_exponent(ns, v) ==
    LET n        == ns[v]
        base     == ns[n.children[1]]
        exponent == ns[n.children[2]]
    IN  ewise_mult(TMul(n.grad, exponent.value),
                   detail_pow(base.value, exponent.value))

\* the gradient the backward closure of pow writes to the base
base_grad(ns, v) ==
    LET n        == ns[v]
        base     == ns[n.children[1]]
        exponent == ns[n.children[2]]
    IN  ewise_mult(TMul(n.grad, exponent.value),
                   detail_pow(base.value, TSub(exponent.value, Scalar(One))))

\* the exponent is given a gradient that pow cannot compute
pow_never_throws(ns, v) == FALSE

\* if (exponent.m_requires_grad) throw ADException(...)
pow_throws(ns, v) == ns[ns[v].children[2]].requires_grad

\* what a call of backward leaves: the heap, the exception in flight and the
\* nodes whose backward() was entered, in order
Outcome(ns, err, visits) == [n |-> ns, err |-> err, visits |-> visits]

RECURSIVE backward(_, _)
RECURSIVE backward_f(_, _)

\* a backward that leaves a node it has already differentiated alone
backward_once(ns, v) ==
    IF ns[v].has_grad THEN Outcome(ns, "none", <<>>)
    ELSE LET done == backward_f([ns EXCEPT ![v].has_grad = TRUE], v)
         IN  Outcome(done.n, done.err, <<v>> \o done.visits)

\* _ValueData::backward of node v
backward(ns, v) ==
    LET done == backward_f([ns EXCEPT ![v].has_grad = TRUE], v)
    IN  Outcome(done.n, done.err, <<v>> \o done.visits)

\* the closures with the right operand of a two-operand op taken first
backward_f_right_first(ns, v) ==
    LET n == ns[v]
    IN  IF n.backward_f = "leaf" THEN Outcome(ns, "none", <<>>)
        ELSE IF ~n.requires_grad
        THEN Outcome(ns, "none", <<>>)
        ELSE IF n.backward_f \in {"+", "-", "*", "/"} THEN
            LET lhs == n.children[1]
                rhs == n.children[2]
                r   == IF ns[rhs].requires_grad
                       THEN backward([ns EXCEPT ![rhs].grad = rhs_grad(ns, v)], rhs)
                       ELSE Outcome(ns, "none", <<>>)
            IN  IF r.err # "none" THEN r
                ELSE IF r.n[lhs].requires_grad
                THEN LET l == backward([r.n EXCEPT ![lhs].grad = lhs_grad(r.n, v)],
                                       lhs)
                     IN  Outcome(l.n, l.err, r.visits \o l.visits)
                ELSE r
        ELSE IF n.backward_f = "pow" THEN
            LET base == n.children[1]
                b == IF ns[base].requires_grad
                     THEN backward([ns EXCEPT ![base].grad = base_grad(ns, v)], base)
                     ELSE Outcome(ns, "none", <<>>)
            IN  IF b.err # "none" THEN b
                ELSE IF pow_throws(b.n, v)
                THEN Outcome(b.n, "UnsupportedDerivative", b.visits)
                ELSE b
        ELSE
            LET child == n.children[1]
            IN  IF ns[child].requires_grad
                THEN backward([ns EXCEPT ![child].grad = child_grad(ns, v)], child)
                ELSE Outcome(ns, "none", <<>>)

\* the closures without the test of m_requires_grad on each child
backward_f_unguarded(ns, v) ==
    LET n == ns[v]
    IN  IF n.backward_f = "leaf" THEN Outcome(ns, "none", <<>>)
        ELSE IF ~n.requires_grad
        THEN Outcome(ns, "none", <<>>)
        ELSE IF n.backward_f \in {"+", "-", "*", "/"} THEN
            LET lhs == n.children[1]
                rhs == n.children[2]
                l   == backward([ns EXCEPT ![lhs].grad = lhs_grad(ns, v)], lhs)
            IN  IF l.err # "none" THEN l
                ELSE LET r == backward([l.n EXCEPT ![rhs].grad = rhs_grad(l.n, v)],
                                       rhs)
                     IN  Outcome(r.n, r.err, l.visits \o r.visits)
        ELSE IF n.backward_f = "pow" THEN
            LET base == n.children[1]
                b == backward([ns EXCEPT ![base].grad = base_grad(ns, v)], base)
            IN  IF b.err # "none" THEN b
                ELSE IF pow_throws(b.n, v)
                THEN Outcome(b.n, "UnsupportedDerivative", b.visits)
                ELSE b
        ELSE
            LET child == n.children[1]
            IN  backward([ns EXCEPT ![child].grad = child_grad(ns, v)], child)

\* m_backward_f of node v: the closure its constructor was given.  An
\* exception thrown by the backward() of a child leaves the closure at once.
backward_f(ns, v) ==
    LET n == ns[v]
    IN  IF n.backward_f = "leaf" THEN Outcome(ns, "none", <<>>)
        ELSE IF ~n.requires_grad             \* AD_ENSURE_REQUIRES_GRAD
        THEN Outcome(ns, "none", <<>>)
        ELSE IF n.backward_f \in {"+", "-", "*", "/"} THEN
            LET lhs == n.children[1]
                rhs == n.children[2]
                l   == IF ns[lhs].requires_grad
                       THEN backward([ns EXCEPT ![lhs].grad = lhs_grad(ns, v)], lhs)
                       ELSE Outcome(ns, "none", <<>>)
            IN  IF l.err # "none" THEN l
                ELSE IF l.n[rhs].requires_grad
                THEN LET r == backward([l.n EXCEPT ![rhs].grad = rhs_grad(l.n, v)],
                                       rhs)
                     IN  Outcome(r.n, r.err, l.visits \o r.visits)
                ELSE l
        ELSE IF n.backward_f = "pow" THEN
            LET base == n.children[1]
                b == IF ns[base].requires_grad
                     THEN backward([ns EXCEPT ![base].grad = base_grad(ns, v)], base)
                     ELSE Outcome(ns, "none", <<>>)
            IN  IF b.err # "none" THEN b
                ELSE IF pow_throws(b.n, v)
                THEN Outcome(b.n, "UnsupportedDerivative", b.visits)
                ELSE b
        ELSE
            LET child == n.children[1]
            IN  IF ns[child].requires_grad
                THEN backward([ns EXCEPT ![child].grad = child_grad(ns, v)], child)
                ELSE Outcome(ns, "none", <<>>)

\* the earlier revision (autodiff.h:208): a message on stderr, no exception
grad_unchecked(ns, v) == [err |-> "none", val |-> <<ns[v].grad>>]

\* _ValueData::grad: the ADException or the stored gradient
grad(ns, v) ==
    IF ~ns[v].has_grad
    THEN [err |-> "MissingGradient", val |-> <<>>]
    ELSE [err |-> "none", val |-> <<ns[v].grad>>]

\* the step taken up the gradient: m_value += grad() * lr
update_adds(ns, v, lr) ==
    LET g == grad(ns, v)
    IN  IF g.err # "none" THEN [n |-> ns, err |-> g.err]
        ELSE [n |-> [ns EXCEPT ![v].value = TAdd(@, TMul(g.val[1], Scalar(lr)))],
              err |-> "none"]

\* _ValueData::update: m_value -= grad() * lr
update(ns, v, lr) ==
    LET g == grad(ns, v)
    IN  IF g.err # "none" THEN [n |-> ns, err |-> g.err]
        ELSE [n |-> [ns EXCEPT ![v].value = TSub(@, TMul(g.val[1], Scalar(lr)))],
              err |-> "none"]

\* a result that requires a gradient only if one of its operands does
AD_BINARY_OP_inheriting(ns, op, lhs, rhs) ==
    LET result == Len(ns) + 1
        made   == Append(AD_CHILD(AD_CHILD(ns, lhs), rhs),
                         [ValueData(Apply(op, ns[lhs].value, ns[rhs].value),
                                    op, op, <<lhs, rhs>>)
                            EXCEPT !.requires_grad =
                                ns[lhs].requires_grad \/ ns[rhs].requires_grad])
    IN  set_parent(set_parent(made, lhs, result), rhs, result)

\* operator op(_ValueWrapper<T>& lhs, _ValueWrapper<B>& rhs)
AD_BINARY_OP(ns, op, lhs, rhs) ==
    LET result == Len(ns) + 1
        made   == Append(AD_CHILD(AD_CHILD(ns, lhs), rhs),
                         ValueData(Apply(op, ns[lhs].value, ns[rhs].value),
                                   op, op, <<lhs, rhs>>))
    IN  set_parent(set_parent(made, lhs, result), rhs, result)

\* operator -(_ValueWrapper<T>& obj)
AD_UNARY_OP(ns, obj) ==
    LET result == Len(ns) + 1
    IN  set_parent(Append(AD_CHILD(ns, obj),
                          ValueData(TNeg(ns[obj].value), "neg", "-", <<obj>>)),
                   obj, result)

\* value.tpp: pow(_ValueWrapper<B>& base, _ValueWrapper<E>& exponent)
pow(ns, base, exponent) ==
    LET result == Len(ns) + 1
        made   == Append(AD_CHILD(AD_CHILD(ns, base), exponent),
                         ValueData(detail_pow(ns[base].value, ns[exponent].value),
                                   "pow", "**", <<base, exponent>>))
    IN  set_parent(set_parent(made, base, result), exponent, result)

\* value.tpp: relu
relu(ns, obj) ==
    LET result == Len(ns) + 1
        value  == relu_helper(ns[obj].value, ns[obj].value)
    IN  set_parent(Append(AD_CHILD(ns, obj),
                          ValueData(value, "relu", "relu", <<obj>>)),
                   obj, result)

\* value.tpp: sum
sum(ns, obj) ==
    LET result == Len(ns) + 1
        value  == Scalar(detail_sum(ns[obj].value))
    IN  set_parent(Append(AD_CHILD(ns, obj),
                          ValueData(value, "sum", "sum", <<obj>>)),
                   obj, result)

\* value.tpp: expand<N>(Value&) for a scalar obj, expand<N, S>(Vector<S>&)
\* for a vector obj of length S
expand(ns, obj, N) ==
    LET result == Len(ns) + 1
        child  == ns[obj].value
        S      == Len(child.d)
        value  == IF is_scalar(child)
                  THEN Vec([p \in 1..N |-> child.d[1]])
                  ELSE Vec([p \in 1..(S * N) |-> child.d[((p - 1) % S) + 1]])
        tag    == IF is_scalar(child) THEN "expand_scalar" ELSE "expand_vector"
    IN  set_parent(Append(AD_CHILD(ns, obj),
                          ValueData(value, tag, <<"expand", N>>, <<obj>>)),
                   obj, result)

\* what operator<< writes, piece by piece: a printed m_value or the text of
\* an op
Printed(value) == [text |-> "", value |-> <<value>>]

Text(str) == [text |-> str, value |-> <<>>]

RECURSIVE free_store(_)

\* the heap once the storage of the released nodes at its end is given back
free_store(ns) ==
    IF ns # <<>> /\ ns[Len(ns)].use_count = 0
    THEN free_store(SubSeq(ns, 1, Len(ns) - 1))
    ELSE ns

RECURSIVE get_children(_, _)

\* the nodes get_child reaches from node v, v included
get_children(ns, v) ==
    {v} \cup UNION {get_children(ns, ns[v].children[k]) :
                       k \in 1..Len(ns[v].children)}

RECURSIVE Repeat(_, _)
Repeat(piece, n) == IF n = 0 THEN <<>> ELSE <<piece>> \o Repeat(piece, n - 1)

RECURSIVE to_string(_, _)

\* m_to_string of node v: default_to_string for a leaf, else the closure of
\* the op that made v
to_string(ns, v) ==
    LET n == ns[v]
        f == n.backward_f
    IN  IF f = "leaf" THEN <<Printed(n.value)>>
        ELSE IF f \in {"+", "-", "*", "/"}
        THEN to_string(ns, n.children[1]) \o <<Text(f)>>
                \o to_string(ns, n.children[2])
        ELSE IF f = "pow"
        THEN to_string(ns, n.children[1]) \o <<Text("**")>>
                \o to_string(ns, n.children[2])
        ELSE IF f = "neg"
        THEN <<Text("-")>> \o to_string(ns, n.children[1])
        ELSE IF f = "relu"
        THEN <<Text("relu(")>> \o to_string(ns, n.children[1]) \o <<Text(")")>>
        ELSE IF f = "sum"
        THEN <<Text("sum(")>> \o to_string(ns, n.children[1]) \o <<Text(")")>>
        ELSE Repeat(Printed(ns[n.children[1]].value),
                    Len(n.value.d) \div Len(ns[n.children[1]].value.d))

(***************************************************************************)
(* The calls of the public API, as actions on the heap.  A call leaves in  *)
(* `ret` its name, the node it was made on (or made), its bare argument    *)
(* and what it returned or threw.                                          *)
(***************************************************************************)
Ret(call, node, arg, err, val) ==
    [call |-> call, node |-> node, arg |-> arg, err |-> err, val |-> val]

Ids == 1..Len(nodes)

\* the nodes the program can name: those a live handle owns
Owned == {handles[h] : h \in 1..Len(handles)} \ {0}

\* ad::Value a(x), ad::Vector<N> a(x), ad::Matrix<R,C> a(x)
DoValue(x) ==
    /\ nodes' = Append(nodes, Value(x))
    /\ handles' = Append(handles, Len(nodes) + 1)
    /\ origin' = Append(origin, "Value")
    /\ ret' = Ret("Value", Len(nodes) + 1, <<>>, "none", <<>>)
    /\ UNCHANGED nupd

\* ad::Value::TempValue(x), the static factory called by the program
DoTempValue(x) ==
    /\ nodes' = Append(nodes, TempValue(x))
    /\ handles' = Append(handles, Len(nodes) + 1)
    /\ origin' = Append(origin, "TempValue")
    /\ ret' = Ret("TempValue", Len(nodes) + 1, <<>>, "none", <<>>)
    /\ UNCHANGED nupd

\* lhs op rhs on two handles
DoBinary(op, lhs, rhs) ==
    /\ Supported(op, nodes[lhs].value, nodes[rhs].value)
    /\ nodes' = AD_BINARY_OP(nodes, op, lhs, rhs)
    /\ handles' = Append(handles, Len(nodes) + 1)
    /\ origin' = Append(origin, "op")
    /\ ret' = Ret("op", Len(nodes) + 1, <<>>, "none", <<>>)
    /\ UNCHANGED nupd

\* the temporary node destroyed with its handle when the call returns
DoBinaryBareRhs_dangling(op, lhs, x) ==
    /\ Supported(op, nodes[lhs].value, x)
    /\ nodes' = [AD_BINARY_OP(Append(nodes, TempValue(x)), op, lhs,
                              Len(nodes) + 1)
                    EXCEPT ![Len(nodes) + 1].use_count = 0]
    /\ handles' = Append(handles, Len(nodes) + 2)
    /\ origin' = origin \o <<"TempValue", "op">>
    /\ ret' = Ret("op", Len(nodes) + 2, <<x>>, "none", <<>>)
    /\ UNCHANGED nupd

\* lhs op x, x a bare value: operator op(lhs, AD_MAKE_TEMP(x, B)); the
\* temporary handle is destroyed when the call returns
DoBinaryBareRhs(op, lhs, x) ==
    /\ Supported(op, nodes[lhs].value, x)
    /\ nodes' = reset(AD_BINARY_OP(Append(nodes, TempValue(x)), op, lhs,
                                   Len(nodes) + 1),
                      Len(nodes) + 1)
    /\ handles' = Append(handles, Len(nodes) + 2)
    /\ origin' = origin \o <<"TempValue", "op">>
    /\ ret' = Ret("op", Len(nodes) + 2, <<x>>, "none", <<>>)
    /\ UNCHANGED nupd

\* the bare left operand taken for the right one
DoBinaryBareLhs_as_rhs(op, x, rhs) ==
    /\ Supported(op, x, nodes[rhs].value)
    /\ nodes' = reset(AD_BINARY_OP(Append(nodes, TempValue(x)), op,
                                   rhs, Len(nodes) + 1),
                      Len(nodes) + 1)
    /\ handles' = Append(handles, Len(nodes) + 2)
    /\ origin' = origin \o <<"TempValue", "op">>
    /\ ret' = Ret("op", Len(nodes) + 2, <<x>>, "none", <<>>)
    /\ UNCHANGED nupd

\* x op rhs, x a bare value: operator op(AD_MAKE_TEMP(x, T), rhs)
DoBinaryBareLhs(op, x, rhs) ==
    /\ Supported(op, x, nodes[rhs].value)
    /\ nodes' = reset(AD_BINARY_OP(Append(nodes, TempValue(x)), op,
                                   Len(nodes) + 1, rhs),
                      Len(nodes) + 1)
    /\ handles' = Append(handles, Len(nodes) + 2)
    /\ origin' = origin \o <<"TempValue", "op">>
    /\ ret' = Ret("op", Len(nodes) + 2, <<x>>, "none", <<>>)
    /\ UNCHANGED nupd

DoNeg(obj) ==
    /\ nodes' = AD_UNARY_OP(nodes, obj)
    /\ handles' = Append(handles, Len(nodes) + 1)
    /\ origin' = Append(origin, "op")
    /\ ret' = Ret("op", Len(nodes) + 1, <<>>, "none", <<>>)
    /\ UNCHANGED nupd

\* pow(base, exponent) on two handles; the exponent is a scalar
DoPow(base, exponent) ==
    /\ is_scalar(nodes[exponent].value)
    /\ nodes' = pow(nodes, base, exponent)
    /\ handles' = Append(handles, Len(nodes) + 1)
    /\ origin' = Append(origin, "op")
    /\ ret' = Ret("op", Len(nodes) + 1, <<>>, "none", <<>>)
    /\ UNCHANGED nupd

\* pow(base, e), e a bare float: pow(lhs, AD_MAKE_TEMP(rhs, E))
DoPowBareExponent(base, e) ==
    /\ is_scalar(e)
    /\ nodes' = reset(pow(Append(nodes, TempValue(e)), base, Len(nodes) + 1),
                      Len(nodes) + 1)
    /\ handles' = Append(handles, Len(nodes) + 2)
    /\ origin' = origin \o <<"TempValue", "op">>
    /\ ret' = Ret("op", Len(nodes) + 2, <<e>>, "none", <<>>)
    /\ UNCHANGED nupd

\* pow(x, exponent), x a bare value: pow(AD_MAKE_TEMP(lhs, B), rhs)
DoPowBareBase(x, exponent) ==
    /\ is_scalar(nodes[exponent].value)
    /\ nodes' = reset(pow(Append(nodes, TempValue(x)), Len(nodes) + 1, exponent),
                      Len(nodes) + 1)
    /\ handles' = Append(handles, Len(nodes) + 2)
    /\ origin' = origin \o <<"TempValue", "op">>
    /\ ret' = Ret("op", Len(nodes) + 2, <<x>>, "none", <<>>)
    /\ UNCHANGED nupd

DoRelu(obj) ==
    /\ nodes' = relu(nodes, obj)
    /\ handles' = Append(handles, Len(nodes) + 1)
    /\ origin' = Append(origin, "op")
    /\ ret' = Ret("op", Len(nodes) + 1, <<>>, "none", <<>>)
    /\ UNCHANGED nupd

DoSum(obj) ==
    /\ nodes' = sum(nodes, obj)
    /\ handles' = Append(handles, Len(nodes) + 1)
    /\ origin' = Append(origin, "op")
    /\ ret' = Ret("op", Len(nodes) + 1, <<>>, "none", <<>>)
    /\ UNCHANGED nupd

\* expand<N>(obj), obj a scalar or a vector
DoExpand(obj, N) ==
    /\ ~is_mat(nodes[obj].value)
    /\ nodes' = expand(nodes, obj, N)
    /\ handles' = Append(handles, Len(nodes) + 1)
    /\ origin' = Append(origin, "op")
    /\ ret' = Ret("op", Len(nodes) + 1, <<>>, "none", <<>>)
    /\ UNCHANGED nupd

\* _ValueWrapper::backward: the exception of the pass, if any, reaches the
\* caller; the nodes written before it stay written
DoBackward(v) ==
    LET b == backward(nodes, v)
    IN  /\ nodes' = b.n
        /\ ret' = Ret("backward", v, <<>>, b.err, b.visits)
        /\ UNCHANGED <<handles, origin, nupd>>

\* _ValueWrapper::grad
DoGrad(v) ==
    /\ ret' = Ret("grad", v, <<>>, grad(nodes, v).err, grad(nodes, v).val)
    /\ UNCHANGED <<nodes, handles, origin, nupd>>

\* _ValueWrapper::update
DoUpdate(v, lr) ==
    LET u == update(nodes, v, lr)
    IN  /\ nodes' = u.n
        /\ ret' = Ret("update", v, <<lr>>, u.err, <<>>)
        /\ nupd' = IF u.err = "none" THEN nupd + 1 ELSE nupd
        /\ UNCHANGED <<handles, origin>>

\* a printing that marks the printed node as differentiated
DoPrint_marking(v) ==
    /\ ret' = Ret("print", v, <<>>, "none", to_string(nodes, v))
    /\ nodes' = [nodes EXCEPT ![v].has_grad = TRUE]
    /\ UNCHANGED <<handles, origin, nupd>>

\* operator<<(std::ostream&, const _ValueWrapper&)
DoPrint(v) ==
    /\ ret' = Ret("print", v, <<>>, "none", to_string(nodes, v))
    /\ UNCHANGED <<nodes, handles, origin, nupd>>

\* the copy constructor of _ValueWrapper: a second owner of the same node
DoCopy(h) ==
    /\ handles[h] # 0
    /\ nodes' = AD_CHILD(nodes, handles[h])
    /\ handles' = Append(handles, handles[h])
    /\ ret' = Ret("copy", handles[h], <<>>, "none", <<>>)
    /\ UNCHANGED <<origin, nupd>>

\* the destructor of _ValueWrapper
DoDrop(h) ==
    /\ handles[h] # 0
    /\ nodes' = reset(nodes, handles[h])
    /\ handles' = [handles EXCEPT ![h] = 0]
    /\ ret' = Ret("drop", handles[h], <<>>, "none", <<>>)
    /\ UNCHANGED <<origin, nupd>>

(***************************************************************************)
(* Spec: any sequence of API calls on a heap of at most MaxNodes nodes,    *)
(* with at most MaxUpdates successful updates.                             *)
(***************************************************************************)
MaxNodes == 3

MaxUpdates == 1

SmallFloat(x) == x[2] >= 0 /\ Abs(x[1]) <= MaxMagnitude /\ x[2] <= MaxMagnitude

Bounded(ns) ==
    \A i \in 1..Len(ns) :
        /\ \A j \in 1..Len(ns[i].value.d) : SmallFloat(ns[i].value.d[j])
        /\ \A j \in 1..Len(ns[i].grad.d) : SmallFloat(ns[i].grad.d[j])

LeafValues ==
    {Scalar(Int2R(3)),
     Vec(<<Int2R(1), Int2R(-2)>>),
     Mat(2, 2, <<Int2R(1), Zero, Int2R(2), Int2R(-1)>>)}

BareValues == {Scalar(Int2R(3)), Vec(<<Int2R(2), Int2R(1)>>)}

LearningRates == {One, Rat(1, 2)}

BinaryOps == {"+", "-", "*", "/"}

Init ==
    /\ nodes = <<>>
    /\ handles = <<>>
    /\ origin = <<>>
    /\ ret = Ret("none", 0, <<>>, "none", <<>>)
    /\ nupd = 0
    /\ pc = "api"

ApiValue ==
    /\ Len(nodes) < MaxNodes
    /\ \E x \in LeafValues : DoValue(x)
    /\ Bounded(nodes')
    /\ UNCHANGED pc

ApiBinary ==
    /\ Len(nodes) < MaxNodes
    /\ \E op \in BinaryOps, lhs \in Owned, rhs \in Owned : DoBinary(op, lhs, rhs)
    /\ Bounded(nodes')
    /\ UNCHANGED pc

ApiBinaryBareRhs ==
    /\ Len(nodes) + 1 < MaxNodes
    /\ \E op \in BinaryOps, lhs \in Owned, x \in BareValues :
           DoBinaryBareRhs(op, lhs, x)
    /\ Bounded(nodes')
    /\ UNCHANGED pc

ApiBinaryBareLhs ==
    /\ Len(nodes) + 1 < MaxNodes
    /\ \E op \in BinaryOps, x \in BareValues, rhs \in Owned :
           DoBinaryBareLhs(op, x, rhs)
    /\ Bounded(nodes')
    /\ UNCHANGED pc

ApiNeg ==
    /\ Len(nodes) < MaxNodes
    /\ \E obj \in Owned : DoNeg(obj)
    /\ Bounded(nodes')
    /\ UNCHANGED pc

ApiPow ==
    /\ Len(nodes) < MaxNodes
    /\ \E base \in Owned, exponent \in Owned : DoPow(base, exponent)
    /\ Bounded(nodes')
    /\ UNCHANGED pc

ApiPowBareExponent ==
    /\ Len(nodes) + 1 < MaxNodes
    /\ \E base \in Owned, e \in BareValues : DoPowBareExponent(base, e)
    /\ Bounded(nodes')
    /\ UNCHANGED pc

ApiRelu ==
    /\ Len(nodes) < MaxNodes
    /\ \E obj \in Owned : DoRelu(obj)
    /\ Bounded(nodes')
    /\ UNCHANGED pc

ApiSum ==
    /\ Len(nodes) < MaxNodes
    /\ \E obj \in Owned : DoSum(obj)
    /\ Bounded(nodes')
    /\ UNCHANGED pc

ApiBackward ==
    /\ \E v \in Owned : DoBackward(v)
    /\ Bounded(nodes')
    /\ UNCHANGED pc

ApiGrad == (\E v \in Owned : DoGrad(v)) /\ UNCHANGED pc

ApiUpdate ==
    /\ nupd < MaxUpdates
    /\ \E v \in Owned, lr \in LearningRates : DoUpdate(v, lr)
    /\ Bounded(nodes')
    /\ UNCHANGED pc

ApiPrint == (\E v \in Owned : DoPrint(v)) /\ UNCHANGED pc

Next ==
    \/ ApiValue
    \/ ApiBinary
    \/ ApiBinaryBareRhs
    \/ ApiBinaryBareLhs
    \/ ApiNeg
    \/ ApiPow
    \/ ApiPowBareExponent
    \/ ApiRelu
    \/ ApiSum
    \/ ApiBackward
    \/ ApiGrad
    \/ ApiUpdate
    \/ ApiPrint

Spec == Init /\ [][Next]_vars

(***************************************************************************)
(* Inputs of the programs below.                                           *)
(***************************************************************************)
MaxNum == 4

MaxDen == 3

MaxDim == 3

InScalars == {Scalar(Rat(n, d)) : n \in -MaxNum..MaxNum, d \in 1..MaxDen}

\* vectors <<u + w, 2u + w, ...>> of each length up to MaxDim
InVecs ==
    {Vec([j \in 1..n |-> Int2R(u * j + w)]) :
        n \in 1..MaxDim, u \in {0, 1, 2}, w \in {-1, 0}}

\* matrices with entry a*i + b*j, plus s on the diagonal, of each shape
InMats ==
    {Mat(r, c, [p \in 1..(r * c) |->
            LET i == ((p - 1) \div c) + 1
                j == ((p - 1) % c) + 1
            IN  Int2R(a * i + b * j + (IF i = j THEN s ELSE 0))]) :
        r \in 1..MaxDim, c \in 1..MaxDim, a \in {0, 1}, b \in {-1, 0}, s \in {0, 1}}

InitProgram ==
    /\ nodes = <<>>
    /\ handles = <<>>
    /\ origin = <<>>
    /\ ret = Ret("none", 0, <<>>, "none", <<>>)
    /\ nupd = 0
    /\ pc = "start"

(***************************************************************************)
(* SpecBinary: a = Value(x); b = Value(y); r = a op b; r.backward();       *)
(* with either operand of the operation given bare instead.                *)
(***************************************************************************)
Operands == InScalars \cup InVecs \cup InMats

BinLeafA ==
    /\ pc = "start"
    /\ \E x \in Operands : DoValue(x)
    /\ pc' = "a"

BinLeafB ==
    /\ pc = "a"
    /\ \E x \in Operands : DoValue(x)
    /\ pc' = "ab"

BinOp ==
    /\ pc = "ab"
    /\ \E op \in BinaryOps : DoBinary(op, 1, 2)
    /\ pc' = "built"

BinOpBareRhs ==
    /\ pc = "a"
    /\ \E op \in BinaryOps, k \in Operands : DoBinaryBareRhs(op, 1, k)
    /\ pc' = "built_bare_rhs"

BinOpBareLhs ==
    /\ pc = "a"
    /\ \E op \in BinaryOps, k \in Operands : DoBinaryBareLhs(op, k, 1)
    /\ pc' = "built_bare_lhs"

BinBackward ==
    /\ pc \in {"built", "built_bare_rhs", "built_bare_lhs"}
    /\ DoBackward(Len(nodes))
    /\ pc' = (CASE pc = "built" -> "done"
                [] pc = "built_bare_rhs" -> "done_bare_rhs"
                [] pc = "built_bare_lhs" -> "done_bare_lhs")

BinGrad ==
    /\ pc \in {"done", "done_bare_rhs", "done_bare_lhs"}
    /\ \E v \in Ids : DoGrad(v)
    /\ pc' = pc

NextBinary ==
    \/ BinLeafA
    \/ BinLeafB
    \/ BinOp
    \/ BinOpBareRhs
    \/ BinOpBareLhs
    \/ BinBackward
    \/ BinGrad

SpecBinary == InitProgram /\ [][NextBinary]_vars

(***************************************************************************)
(* SpecChain (examples/karpathy.cpp): x = Value(x0); y = relu(-x * 3 + 2); *)
(* y.backward(); x.grad()                                                  *)
(***************************************************************************)
ChainLeaf ==
    /\ pc = "start"
    /\ \E x \in InScalars : DoValue(x)
    /\ pc' = "x"

ChainNeg ==
    /\ pc = "x"
    /\ DoNeg(1)
    /\ pc' = "neg"

ChainMul ==
    /\ pc = "neg"
    /\ DoBinaryBareRhs("*", 2, Scalar(Int2R(3)))
    /\ pc' = "mul"

ChainAdd ==
    /\ pc = "mul"
    /\ DoBinaryBareRhs("+", 4, Scalar(Int2R(2)))
    /\ pc' = "add"

ChainRelu ==
    /\ pc = "add"
    /\ DoRelu(6)
    /\ pc' = "relu"

ChainBackward ==
    /\ pc = "relu"
    /\ DoBackward(7)
    /\ pc' = "done"

ChainGrad ==
    /\ pc = "done"
    /\ DoGrad(1)
    /\ pc' = "read"

NextChain ==
    \/ ChainLeaf
    \/ ChainNeg
    \/ ChainMul
    \/ ChainAdd
    \/ ChainRelu
    \/ ChainBackward
    \/ ChainGrad

SpecChain == InitProgram /\ [][NextChain]_vars

(***************************************************************************)
(* SpecMatVec (examples/matrixvector.cpp): M = Matrix<R,C>(m);             *)
(* v = Vector<C>(x); y = M * v (or y = M * v + 2); s = sum(y);             *)
(* s.backward()                                                            *)
(***************************************************************************)
MvMatrix ==
    /\ pc = "start"
    /\ \E m \in InMats : DoValue(m)
    /\ pc' = "M"

MvVector ==
    /\ pc = "M"
    /\ \E x \in InVecs : x.r = nodes[1].value.c /\ DoValue(x)
    /\ pc' = "Mv"

MvProduct ==
    /\ pc = "Mv"
    /\ DoBinary("*", 1, 2)
    /\ pc' = "product"

MvAdd ==
    /\ pc = "product"
    /\ DoBinaryBareRhs("+", 3, Scalar(Int2R(2)))
    /\ pc' = "y"

MvSum ==
    /\ pc \in {"product", "y"}
    /\ DoSum(Len(nodes))
    /\ pc' = "sum"

MvBackward ==
    /\ pc = "sum"
    /\ DoBackward(Len(nodes))
    /\ pc' = "done"

NextMatVec ==
    \/ MvMatrix
    \/ MvVector
    \/ MvProduct
    \/ MvAdd
    \/ MvSum
    \/ MvBackward

SpecMatVec == InitProgram /\ [][NextMatVec]_vars

(***************************************************************************)
(* SpecReduce: x = leaf; y = f(x); s = sum(y) or s = sum(y * W) for a bare  *)
(* W; try { s.backward(); } catch (ADException&) {}; then x.grad(),        *)
(* s.grad() or x.update(lr).  f(x) is expand<N>(x), pow(x, e) for a bare   *)
(* e, pow(x, e) for a handle e, or k * x for a bare k.                     *)
(***************************************************************************)
MaxExpand == 3

Exponents == {Scalar(Int2R(e)) : e \in (1 - MaxExponent)..MaxExponent}

\* a bare operand of the shape of t with the components 2, 3, 4, ...
Ramp(t) == [t EXCEPT !.d = [j \in 1..Len(t.d) |-> Int2R(j + 1)]]

RedLeaf ==
    /\ pc = "start"
    /\ \E x \in InScalars \cup InVecs : DoValue(x)
    /\ pc' = "x"

RedExpand ==
    /\ pc = "x"
    /\ \E N \in 1..MaxExpand : DoExpand(1, N)
    /\ pc' = "y"

RedPowBareExponent ==
    /\ pc = "x"
    /\ \E e \in Exponents : DoPowBareExponent(1, e)
    /\ pc' = "y"

RedExponent ==
    /\ pc = "x"
    /\ \E e \in Exponents : DoValue(e)
    /\ pc' = "xe"

RedPow ==
    /\ pc = "xe"
    /\ DoPow(1, 2)
    /\ pc' = "y"

RedScale ==
    /\ pc = "x"
    /\ \E k \in InScalars : DoBinaryBareLhs("*", k, 1)
    /\ pc' = "y"

RedWeigh ==
    /\ pc = "y"
    /\ DoBinaryBareRhs("*", Len(nodes), Ramp(nodes[Len(nodes)].value))
    /\ pc' = "weighed"

RedSum ==
    /\ pc \in {"y", "weighed"}
    /\ DoSum(Len(nodes))
    /\ pc' = "sum"

RedBackward ==
    /\ pc = "sum"
    /\ DoBackward(Len(nodes))
    /\ pc' = IF ret'.err = "none" THEN "done" ELSE "aborted"

RedGrad ==
    /\ pc \in {"done", "aborted"}
    /\ \E v \in Owned : DoGrad(v)
    /\ pc' = IF pc = "done" THEN "read" ELSE "aborted_read"

RedUpdate ==
    /\ pc \in {"done", "aborted"}
    /\ \E v \in Owned, lr \in LearningRates : DoUpdate(v, lr)
    /\ pc' = IF pc = "done" THEN "updated" ELSE "aborted_updated"

NextReduce ==
    \/ RedLeaf
    \/ RedExpand
    \/ RedPowBareExponent
    \/ RedExponent
    \/ RedPow
    \/ RedScale
    \/ RedWeigh
    \/ RedSum
    \/ RedBackward
    \/ RedGrad
    \/ RedUpdate

SpecReduce == InitProgram /\ [][NextReduce]_vars

(***************************************************************************)
(* SpecLift: a = leaf; then r = a op x, r = x op a, r = pow(a, x) or       *)
(* r = pow(x, a) for a bare x, or the same on t = TempValue(x) in place of *)
(* x; try { r.backward(); } catch (ADException&) {}; a.grad().             *)
(***************************************************************************)
Bares ==
    {Scalar(Int2R(3)), Scalar(Rat(-1, 2)), Vec(<<Int2R(2), Int2R(-1)>>),
     Vec(<<One, Int2R(2), Int2R(4)>>)}

LiftLeaf ==
    /\ pc = "start"
    /\ \E x \in InScalars \cup InVecs : DoValue(x)
    /\ pc' = "a"

LiftBareRhs ==
    /\ pc = "a"
    /\ \E op \in BinaryOps, x \in Bares : DoBinaryBareRhs(op, 1, x)
    /\ pc' = "bare_rhs"

LiftBareLhs ==
    /\ pc = "a"
    /\ \E op \in BinaryOps, x \in Bares : DoBinaryBareLhs(op, x, 1)
    /\ pc' = "bare_lhs"

LiftPowBareExponent ==
    /\ pc = "a"
    /\ \E e \in Exponents : DoPowBareExponent(1, e)
    /\ pc' = "bare_rhs"

LiftPowBareBase ==
    /\ pc = "a"
    /\ nodes[1].value \in Exponents
    /\ \E x \in Bares : DoPowBareBase(x, 1)
    /\ pc' = "bare_lhs"

LiftTemp ==
    /\ pc = "a"
    /\ \E x \in Bares \cup Exponents : DoTempValue(x)
    /\ pc' = "at"

LiftOpRhs ==
    /\ pc = "at"
    /\ \/ \E op \in BinaryOps : DoBinary(op, 1, 2)
       \/ DoPow(1, 2)
    /\ pc' = "temp_rhs"

LiftOpLhs ==
    /\ pc = "at"
    /\ \/ \E op \in BinaryOps : DoBinary(op, 2, 1)
       \/ nodes[1].value \in Exponents /\ DoPow(2, 1)
    /\ pc' = "temp_lhs"

LiftBackward ==
    /\ pc \in {"bare_rhs", "bare_lhs", "temp_rhs", "temp_lhs"}
    /\ DoBackward(3)
    /\ pc' = pc

LiftGrad ==
    /\ pc \in {"bare_rhs", "bare_lhs", "temp_rhs", "temp_lhs"}
    /\ DoGrad(1)
    /\ pc' = pc

NextLift ==
    \/ LiftLeaf
    \/ LiftBareRhs
    \/ LiftBareLhs
    \/ LiftPowBareExponent
    \/ LiftPowBareBase
    \/ LiftTemp
    \/ LiftOpRhs
    \/ LiftOpLhs
    \/ LiftBackward
    \/ LiftGrad

SpecLift == InitProgram /\ [][NextLift]_vars

(***************************************************************************)
(* SpecPrint: x = leaf; y = f1(x); z = f2(y); ... up to MaxOps ops, each   *)
(* of -y, y + 2, relu(y), sum(y), pow(y, 2) or expand<N>(y); any of the    *)
(* handles may be sent to std::cout at any point, as in                    *)
(* examples/karpathy.cpp.                                                  *)
(***************************************************************************)
MaxOps == 3

Ops == {i \in Ids : origin[i] = "op"}

PrLeaf ==
    /\ pc = "start"
    /\ \E x \in {Scalar(Int2R(-3)), Vec(<<One, Int2R(-2)>>)} : DoValue(x)
    /\ pc' = "expr"

PrNeg ==
    /\ pc = "expr" /\ Cardinality(Ops) < MaxOps
    /\ DoNeg(Len(nodes))
    /\ pc' = pc

PrAdd ==
    /\ pc = "expr" /\ Cardinality(Ops) < MaxOps
    /\ DoBinaryBareRhs("+", Len(nodes), Scalar(Int2R(2)))
    /\ pc' = pc

PrRelu ==
    /\ pc = "expr" /\ Cardinality(Ops) < MaxOps
    /\ DoRelu(Len(nodes))
    /\ pc' = pc

PrSum ==
    /\ pc = "expr" /\ Cardinality(Ops) < MaxOps
    /\ DoSum(Len(nodes))
    /\ pc' = pc

PrPow ==
    /\ pc = "expr" /\ Cardinality(Ops) < MaxOps
    /\ DoPowBareExponent(Len(nodes), Scalar(Int2R(2)))
    /\ pc' = pc

PrExpand ==
    /\ pc = "expr" /\ Cardinality(Ops) < MaxOps
    /\ Len(nodes[Len(nodes)].value.d) < MaxDim
    /\ \E N \in 1..MaxExpand : DoExpand(Len(nodes), N)
    /\ pc' = pc

PrPrint ==
    /\ pc = "expr"
    /\ \E v \in Owned : DoPrint(v)
    /\ pc' = pc

NextPrint ==
    \/ PrLeaf
    \/ PrNeg
    \/ PrAdd
    \/ PrRelu
    \/ PrSum
    \/ PrPow
    \/ PrExpand
    \/ PrPrint

SpecPrint == InitProgram /\ [][NextPrint]_vars

(***************************************************************************)
(* SpecDag: a = leaf; u = f(a); w = g(a); y = u op w; optionally           *)
(* z = y * y; then backward() on any of the handles, any number of times,  *)
(* each in try { } catch (ADException&) { }, and a.grad().  f and g are    *)
(* each one of: a copy of the handle a, -a, a op k for a bare k, or        *)
(* pow(a, a).  handles = <<a, u, w, y, z>>.                                 *)
(***************************************************************************)
Factors == {Scalar(Int2R(2)), Scalar(Int2R(3))}

DagLeaves ==
    {Scalar(Int2R(2)), Scalar(Rat(-1, 2)), Scalar(Int2R(-3)),
     Vec(<<One, Int2R(-2)>>)}

DagLeaf ==
    /\ pc = "start"
    /\ \E x \in DagLeaves : DoValue(x)
    /\ pc' = "a"

DagCopy ==
    /\ pc \in {"a", "u"}
    /\ DoCopy(1)
    /\ pc' = IF pc = "a" THEN "u" ELSE "uw"

DagNeg ==
    /\ pc \in {"a", "u"}
    /\ DoNeg(1)
    /\ pc' = IF pc = "a" THEN "u" ELSE "uw"

DagOp ==
    /\ pc \in {"a", "u"}
    /\ \E op \in BinaryOps, k \in Factors : DoBinaryBareRhs(op, 1, k)
    /\ pc' = IF pc = "a" THEN "u" ELSE "uw"

DagPow ==
    /\ pc \in {"a", "u"}
    /\ DoPow(1, 1)
    /\ pc' = IF pc = "a" THEN "u" ELSE "uw"

DagJoin ==
    /\ pc = "uw"
    /\ \E op \in BinaryOps : DoBinary(op, handles[2], handles[3])
    /\ pc' = "y"

DagSquare ==
    /\ pc = "y"
    /\ DoBinary("*", handles[4], handles[4])
    /\ pc' = "z"

DagBackward ==
    /\ pc \in {"y", "z"}
    /\ \E v \in Owned : DoBackward(v)
    /\ pc' = pc

DagGrad ==
    /\ pc \in {"y", "z"}
    /\ DoGrad(1)
    /\ pc' = pc

NextDag ==
    \/ DagLeaf
    \/ DagCopy
    \/ DagNeg
    \/ DagOp
    \/ DagPow
    \/ DagJoin
    \/ DagSquare
    \/ DagBackward
    \/ DagGrad

SpecDag == InitProgram /\ [][NextDag]_vars

(***************************************************************************)
(* SpecHandles: handles are made, copied and destroyed in any order, ops   *)
(* are built on the nodes of live handles and backward() is called on live *)
(* handles; at most MaxHeap nodes and MaxHandles handles are ever made.    *)
(***************************************************************************)
MaxHeap == 3

MaxHandles == 4

HsValue ==
    /\ Len(nodes) < MaxHeap /\ Len(handles) < MaxHandles
    /\ DoValue(Scalar(Int2R(2)))
    /\ UNCHANGED pc

HsBinary ==
    /\ Len(nodes) < MaxHeap /\ Len(handles) < MaxHandles
    /\ \E lhs \in Owned, rhs \in Owned : DoBinary("*", lhs, rhs)
    /\ UNCHANGED pc

HsBinaryBareRhs ==
    /\ Len(nodes) + 1 < MaxHeap /\ Len(handles) < MaxHandles
    /\ \E lhs \in Owned : DoBinaryBareRhs("+", lhs, Scalar(Int2R(3)))
    /\ UNCHANGED pc

HsCopy ==
    /\ Len(handles) < MaxHandles
    /\ \E h \in 1..Len(handles) : DoCopy(h)
    /\ UNCHANGED pc

HsDrop ==
    /\ \E h \in 1..Len(handles) : DoDrop(h)
    /\ UNCHANGED pc

HsBackward ==
    /\ \E v \in Owned : DoBackward(v)
    /\ UNCHANGED pc

NextHandles ==
    \/ HsValue
    \/ HsBinary
    \/ HsBinaryBareRhs
    \/ HsCopy
    \/ HsDrop
    \/ HsBackward

SpecHandles == Init /\ [][NextHandles]_vars

(***************************************************************************)
(* SpecTemp: t = ad::Value::TempValue(x); u = TempValue(y) or a leaf u(y);  *)
(* r = an op on t, on t and u, or on u and t; then backward() and grad()   *)
(* on any of the handles, exceptions caught.                               *)
(***************************************************************************)
TmTemp ==
    /\ pc = "start"
    /\ \E x \in Bares : DoTempValue(x)
    /\ pc' = "t"

TmSecond ==
    /\ pc = "t"
    /\ \E y \in Bares \cup Exponents : DoTempValue(y) \/ DoValue(y)
    /\ pc' = "tu"

TmBinary ==
    /\ pc = "tu"
    /\ \E op \in BinaryOps, lhs \in {1, 2}, rhs \in {1, 2} : DoBinary(op, lhs, rhs)
    /\ pc' = "r"

TmPow ==
    /\ pc = "tu"
    /\ nodes[2].value \in Exponents
    /\ DoPow(1, 2)
    /\ pc' = "r"

TmUnary ==
    /\ pc = "tu"
    /\ \/ DoNeg(1)
       \/ DoRelu(1)
       \/ DoSum(1)
       \/ Len(nodes[1].value.d) < MaxDim /\ \E N \in 1..MaxExpand : DoExpand(1, N)
    /\ pc' = "r"

TmBackward ==
    /\ pc = "r"
    /\ \E v \in Owned : DoBackward(v)
    /\ pc' = pc

TmGrad ==
    /\ pc = "r"
    /\ \E v \in Owned : DoGrad(v)
    /\ pc' = pc

NextTemp ==
    \/ TmTemp
    \/ TmSecond
    \/ TmBinary
    \/ TmPow
    \/ TmUnary
    \/ TmBackward
    \/ TmGrad

SpecTemp == InitProgram /\ [][NextTemp]_vars

(***************************************************************************)
(* SpecChildren: the calls of SpecHandles and, on live handles, update(1)  *)
(* and operator<<.                                                         *)
(***************************************************************************)
HsUpdate ==
    /\ nupd < MaxUpdates
    /\ \E v \in Owned : DoUpdate(v, One)
    /\ UNCHANGED pc

HsPrint ==
    /\ \E v \in Owned : DoPrint(v)
    /\ UNCHANGED pc

NextChildren ==
    \/ HsValue
    \/ HsBinary
    \/ HsBinaryBareRhs
    \/ HsCopy
    \/ HsDrop
    \/ HsBackward
    \/ HsUpdate
    \/ HsPrint

SpecChildren == Init /\ [][NextChildren]_vars

(***************************************************************************)
(* SpecAndGate: the training loop of the AND gate.                         *)
(*   w = Matrix<1,2>([1,1]); b = Value(0); lr = 0.5;                       *)
(*   for each of Epochs epochs, for each sample (x0, x1, y):               *)
(*     loss = relu(w * x + b) - y; loss.backward();                        *)
(*     w.update(lr); b.update(lr);                                         *)
(* nupd counts the updates done, two for each sample.                      *)
(***************************************************************************)
Epochs == 100

Samples == <<<<0, 0, 0>>, <<1, 0, 0>>, <<0, 1, 0>>, <<1, 1, 1>>>>

InitialWeights == Mat(1, 2, <<One, One>>)

InitialBias == Scalar(Zero)

LearningRate == Rat(1, 2)

\* the sample of the iteration in progress
Sample == Samples[((nupd \div 2) % Len(Samples)) + 1]

AgWeights ==
    /\ pc = "start"
    /\ DoValue(InitialWeights)
    /\ pc' = "w"

AgBias ==
    /\ pc = "w"
    /\ DoValue(InitialBias)
    /\ pc' = "loop"

AgProduct ==
    /\ pc = "loop"
    /\ DoBinaryBareRhs("*", 1, Vec(<<Int2R(Sample[1]), Int2R(Sample[2])>>))
    /\ pc' = "wx"

AgAdd ==
    /\ pc = "wx"
    /\ DoBinary("+", Len(nodes), 2)
    /\ pc' = "z"

AgRelu ==
    /\ pc = "z"
    /\ DoRelu(Len(nodes))
    /\ pc' = "y_est"

AgLoss ==
    /\ pc = "y_est"
    /\ DoBinaryBareRhs("-", Len(nodes), Scalar(Int2R(Sample[3])))
    /\ pc' = "loss"

AgBackward ==
    /\ pc = "loss"
    /\ DoBackward(Len(nodes))
    /\ pc' = "backward"

AgUpdateWeights ==
    /\ pc = "backward"
    /\ DoUpdate(1, LearningRate)
    /\ pc' = "w_updated"

AgUpdateBias ==
    /\ pc = "w_updated"
    /\ DoUpdate(2, LearningRate)
    /\ pc' = "end"

\* the end of the loop body: the handles made in it are destroyed, the last
\* made first, and the nodes only they kept alive are released
AgEndOfScope ==
    /\ pc = "end"
    /\ LET made == [k \in 1..(Len(handles) - 2) |-> handles[Len(handles) + 1 - k]]
           left == free_store(reset_all(nodes, made))
       IN  /\ nodes' = left
           /\ origin' = SubSeq(origin, 1, Len(left))
    /\ handles' = SubSeq(handles, 1, 2)
    /\ ret' = Ret("drop", 0, <<>>, "none", <<>>)
    /\ UNCHANGED nupd
    /\ pc' = IF nupd = 2 * Len(Samples) * Epochs THEN "trained" ELSE "loop"

NextAndGate ==
    \/ AgWeights
    \/ AgBias
    \/ AgProduct
    \/ AgAdd
    \/ AgRelu
    \/ AgLoss
    \/ AgBackward
    \/ AgUpdateWeights
    \/ AgUpdateBias
    \/ AgEndOfScope

SpecAndGate == InitProgram /\ [][NextAndGate]_vars

(***************************************************************************)
(* The claims.                                                             *)
(***************************************************************************)

\* C1: grad() and update(lr) on a node with has_grad = false fail with the
\* MissingGradient exception and leave the value, grad and has_grad of every
\* node as they were; grad() on a node with has_grad = true returns the
\* stored gradient without an error.
C1_MissingGradient ==
    [][/\ (ret'.call \in {"grad", "update"} /\ ~nodes[ret'.node].has_grad)
            => /\ ret'.err = "MissingGradient"
               /\ Len(nodes') = Len(nodes)
               /\ \A i \in Ids : /\ nodes'[i].value = nodes[i].value
                                /\ nodes'[i].grad = nodes[i].grad
                                /\ nodes'[i].has_grad = nodes[i].has_grad
       /\ (ret'.call = "grad" /\ nodes[ret'.node].has_grad)
            => /\ ret'.err = "none"
               /\ ret'.val = <<nodes[ret'.node].grad>>]_vars

\* an update has just failed on a node no backward pass visited, in a heap
\* where another node has been visited
C1_Witness ==
    /\ ret.call = "update"
    /\ ret.err = "MissingGradient"
    /\ ~nodes[ret.node].has_grad
    /\ \E i \in Ids : nodes[i].has_grad

\* C2: a successful update(lr) of node n sets n.value to the old value minus
\* n.grad * lr, elementwise, and changes nothing else: n.grad, n.has_grad and
\* every other node (the op nodes built from n included) stay as they were.
C2_UpdateFrame ==
    [][(ret'.call = "update" /\ ret'.err = "none")
          => LET n  == ret'.node
                 lr == ret'.arg[1]
             IN  /\ Len(nodes') = Len(nodes)
                 /\ nodes'[n].value =
                        Ewise(RSub, nodes[n].value,
                              Ewise(RMul, nodes[n].grad, Scalar(lr)))
                 /\ nodes'[n] = [nodes[n] EXCEPT !.value = nodes'[n].value]
                 /\ \A i \in Ids \ {n} : nodes'[i] = nodes[i]]_vars

\* a = 3 has just been updated to 2 with lr = 1 and b = a + 3 still holds 6
C2_Witness ==
    /\ ret.call = "update"
    /\ ret.err = "none"
    /\ nodes[ret.node].value = Scalar(Int2R(2))
    /\ \E b \in Ids : /\ nodes[b].backward_f = "+"
                      /\ nodes[b].children[1] = ret.node
                      /\ nodes[b].value = Scalar(Int2R(6))

\* C3: for a scalar leaf a = Value(x) and b = a + k with k a bare scalar,
\* after b.backward() the call a.grad() returns exactly 1, whatever x and k.
C3_LeafGradIsOne ==
    (/\ pc = "done_bare_rhs"
     /\ nodes[3].backward_f = "+"
     /\ is_scalar(nodes[1].value)
     /\ is_scalar(nodes[2].value))
        => grad(nodes, 1) = [err |-> "none", val |-> <<Scalar(One)>>]

\* a.grad() has returned 1 after b.backward(), with x + k different from 1
C3_Witness ==
    /\ pc = "done_bare_rhs"
    /\ nodes[3].backward_f = "+"
    /\ is_scalar(nodes[1].value)
    /\ is_scalar(nodes[2].value)
    /\ nodes[3].value # Scalar(One)
    /\ ret.call = "grad"
    /\ ret = Ret("grad", 1, <<>>, "none", <<Scalar(One)>>)

\* C4: requires_grad is true for every user-created leaf and for every op
\* result with at least one requires_grad operand, and false for every leaf
\* made by TempValue (the one made for a bare operand included); a TempValue
\* leaf has no children.
C4_RequiresGrad ==
    \A i \in Ids :
        /\ origin[i] = "Value" => nodes[i].requires_grad
        /\ (origin[i] = "op"
              /\ \E j \in 1..Len(nodes[i].children) :
                     nodes[nodes[i].children[j]].requires_grad)
             => nodes[i].requires_grad
        /\ origin[i] = "TempValue"
             => ~nodes[i].requires_grad /\ nodes[i].children = <<>>

\* b = a + 3: a user leaf, the temporary made for the bare 3, and the result
C4_Witness ==
    /\ origin = <<"Value", "TempValue", "op">>
    /\ nodes[3].children = <<1, 2>>
    /\ nodes[1].requires_grad
    /\ ~nodes[2].requires_grad
    /\ nodes[3].requires_grad

\* C5: whenever backward() is called on a handle, the grad of its node is the
\* all-ones value of its shape when its backward_fn runs (backward_fn does
\* not write the grad of its own node, so this is the grad after the call).
C5_SeededWithOnes ==
    ret.call = "backward"
        => nodes[ret.node].grad = Ones(nodes[ret.node].value)

\* C6: for a scalar leaf x and y = relu(-x * 3 + 2), after y.backward() the
\* gradient x.grad is -3 when -x*3 + 2 > 0 and 0 otherwise (zero and negative
\* inputs of relu included): the gate follows the sign of relu's input.
C6_ChainRule ==
    pc \in {"done", "read"}
        => LET x  == nodes[1].value.d[1]
               in == RAdd(RMul(RNeg(x), Int2R(3)), Int2R(2))
           IN  nodes[1].grad = Scalar(IF RPos(in) THEN Int2R(-3) ELSE Zero)

\* x = 2/3: the input of relu is exactly 0 and x.grad() has returned 0
C6_Witness ==
    /\ pc = "read"
    /\ nodes[1].value = Scalar(Rat(2, 3))
    /\ nodes[6].value = Scalar(Zero)
    /\ ret.call = "grad"
    /\ ret = Ret("grad", 1, <<>>, "none", <<Scalar(Zero)>>)

\* C7: for scalar leaves a and b and y = a * b, after y.backward() a.grad is
\* b.value and b.grad is a.value.
C7_ProductRule ==
    (/\ pc = "done"
     /\ nodes[3].backward_f = "*"
     /\ is_scalar(nodes[1].value)
     /\ is_scalar(nodes[2].value))
        => /\ nodes[1].grad = nodes[2].value
           /\ nodes[2].grad = nodes[1].value
           /\ nodes[1].has_grad /\ nodes[2].has_grad

\* y = a * b has been differentiated for two scalars a # b, neither 0 nor 1
C7_Witness ==
    /\ pc = "done"
    /\ nodes[3].backward_f = "*"
    /\ is_scalar(nodes[1].value)
    /\ is_scalar(nodes[2].value)
    /\ nodes[1].value # nodes[2].value
    /\ {nodes[1].value, nodes[2].value} \cap {Scalar(Zero), Scalar(One)} = {}
    /\ ret.call = "backward"

\* C8, as claimed: for leaves a and b of any pair of shapes that addition
\* supports and y = a + b, after y.backward() a.grad is the all-ones value of
\* a's shape and b.grad the all-ones value of b's shape.
C8_AllOnes ==
    (pc = "done" /\ nodes[3].backward_f = "+")
        => /\ nodes[1].grad = Ones(nodes[1].value)
           /\ nodes[2].grad = Ones(nodes[2].value)

\* C8, amended: after y.backward() an operand of y's own shape has the
\* all-ones value of that shape as its grad, and a scalar operand added to a
\* vector or matrix has as its grad the number of elements of y (the sum of
\* the all-ones upstream gradient).
C8_OnesOrCount ==
    (pc = "done" /\ nodes[3].backward_f = "+")
        => \A o \in {1, 2} :
              /\ nodes[o].has_grad
              /\ nodes[o].grad =
                    IF SameShape(nodes[o].value, nodes[3].value)
                    THEN Ones(nodes[o].value)
                    ELSE Scalar(Int2R(Len(nodes[3].value.d)))

\* a scalar has been added to a vector of three elements
C8_Witness ==
    /\ pc = "done"
    /\ nodes[3].backward_f = "+"
    /\ is_scalar(nodes[1].value)
    /\ is_vec(nodes[2].value)
    /\ Len(nodes[2].value.d) = 3
    /\ nodes[1].grad = Scalar(Int2R(3))
    /\ nodes[2].grad = Vec(<<One, One, One>>)

IdentityMatrix3 ==
    Mat(3, 3, <<One, Zero, Zero, Zero, One, Zero, Zero, Zero, One>>)

Vector246 == Vec(<<Int2R(2), Int2R(4), Int2R(6)>>)

\* C9: for a matrix leaf M of shape RxC, a vector leaf v of length C and
\* y = M * v, after sum(y).backward() every M.grad[i,j] is v.value[j] and
\* every v.grad[j] is the sum over i of M.value[i,j]; for M the 3x3 identity,
\* v = [2,4,6] and y = M*v + 2, sum(y).value is 18, M.grad is the outer
\* product of [1,1,1] and [2,4,6] and v.grad is [1,1,1].
C9_MatVec ==
    pc = "done"
        => LET M == nodes[1]
               v == nodes[2]
               ColumnSum(m, j) == SeqSum([i \in 1..m.r |-> At(m, i, j)])
           IN  /\ M.has_grad /\ v.has_grad
               /\ SameShape(M.grad, M.value)
               /\ SameShape(v.grad, v.value)
               /\ \A i \in 1..M.value.r, j \in 1..M.value.c :
                      At(M.grad, i, j) = v.value.d[j]
               /\ \A j \in 1..M.value.c :
                      v.grad.d[j] = ColumnSum(M.value, j)
               /\ (M.value = IdentityMatrix3 /\ v.value = Vector246
                     /\ Len(nodes) = 6)
                    => /\ nodes[6].value = Scalar(Int2R(18))
                       /\ M.grad = Mat(3, 3, <<Int2R(2), Int2R(4), Int2R(6),
                                               Int2R(2), Int2R(4), Int2R(6),
                                               Int2R(2), Int2R(4), Int2R(6)>>)
                       /\ v.grad = Vec(<<One, One, One>>)

\* sum(M*v + 2).backward() has run for the 3x3 identity and v = [2,4,6]
C9_Witness ==
    /\ pc = "done"
    /\ Len(nodes) = 6
    /\ nodes[1].value = IdentityMatrix3
    /\ nodes[2].value = Vector246
    /\ nodes[6].value = Scalar(Int2R(18))
    /\ nodes[1].has_grad

\* C10: for y = A / B with upstream gradient g at y, backward writes
\* A.grad = sum_if_scalar_shape_of_A(g / B) and
\* B.grad = sum_if_scalar_shape_of_B(-g * A / B^2); for scalar leaves a, b
\* with b # 0, after y.backward() b.grad is -a / b^2.
C10_QuotientRule ==
    (pc = "done" /\ nodes[3].backward_f = "/")
        => LET A == nodes[1].value
               B == nodes[2].value
               g == nodes[3].grad
           IN  /\ nodes[1].grad = sum_if_scalar(A, Ewise(RDiv, g, B))
               /\ nodes[2].grad =
                     sum_if_scalar(B,
                         Ewise(RDiv, TNeg(Ewise(RMul, g, A)), Ewise(RMul, B, B)))

\* C11, as claimed: for a vector leaf v of length S and e = expand<N>(v),
\* backward with upstream gradient g at e writes v.grad[j] = the sum over
\* i in 0..N-1 of g[i*S + j], for every S and N; so after
\* sum(expand<N>(v)).backward() every v.grad[j] is N.
C11_ExpandVector ==
    (pc = "done" /\ nodes[2].backward_f = "expand_vector")
        => LET v == nodes[1]
               g == nodes[2].grad
               S == Len(v.value.d)
               N == Len(nodes[2].value.d) \div S
           IN  /\ \A i \in 0..(N - 1), j \in 1..S :
                      nodes[2].value.d[i * S + j] = v.value.d[j]
               /\ \A j \in 1..S :
                      v.grad.d[j] = SeqSum([i \in 1..N |-> g.d[(i - 1) * S + j]])
               /\ Len(nodes) = 3 => v.grad = Fill(v.value, Int2R(N))

\* C12: for a scalar leaf s and every N >= 1, the N components of
\* expand<N>(s) all equal s.value, and after sum(expand<N>(s)).backward()
\* s.grad is N.
C12_ExpandScalar ==
    (pc = "done" /\ nodes[2].backward_f = "expand_scalar")
        => LET N == Len(nodes[2].value.d)
           IN  /\ is_vec(nodes[2].value)
               /\ \A i \in 1..N : nodes[2].value.d[i] = nodes[1].value.d[1]
               /\ Len(nodes) = 3
                    => nodes[1].has_grad /\ nodes[1].grad = Scalar(Int2R(N))

\* sum(expand<3>(s)).backward() has run for a scalar s other than 0 and 1
C12_Witness ==
    /\ pc = "done"
    /\ nodes[2].backward_f = "expand_scalar"
    /\ Len(nodes) = 3
    /\ Len(nodes[2].value.d) = 3
    /\ nodes[1].value \notin {Scalar(Zero), Scalar(One)}
    /\ nodes[1].grad = Scalar(Int2R(3))

\* C13: for p = pow(A, e) with a bare scalar exponent e, the value of p is
\* A^e elementwise and backward with upstream gradient g at p writes
\* A.grad = g * e * A^(e-1) elementwise; for A = [1,2,3] and e = 2, after
\* sum(pow(A, 2)).backward() A.grad is [2,4,6].
C13_PowerRule ==
    (pc = "done" /\ nodes[3].backward_f = "pow" /\ ~nodes[2].requires_grad)
        => LET A == nodes[1]
               e == nodes[2].value.d[1]
               g == nodes[3].grad
           IN  /\ SameShape(nodes[3].value, A.value)
               /\ SameShape(A.grad, A.value)
               /\ A.has_grad
               /\ \A i \in 1..Len(A.value.d) :
                      /\ nodes[3].value.d[i] = RPow(A.value.d[i], e)
                      /\ A.grad.d[i] =
                            RMul(RMul(g.d[i], e),
                                 RPow(A.value.d[i], RSub(e, One)))
               /\ (A.value = Vec(<<Int2R(1), Int2R(2), Int2R(3)>>)
                     /\ e = Int2R(2) /\ Len(nodes) = 4)
                    => A.grad = Vec(<<Int2R(2), Int2R(4), Int2R(6)>>)

\* sum(pow([1,2,3], 2)).backward() has run
C13_Witness ==
    /\ pc = "done"
    /\ Len(nodes) = 4
    /\ nodes[3].backward_f = "pow"
    /\ ~nodes[2].requires_grad
    /\ nodes[1].value = Vec(<<Int2R(1), Int2R(2), Int2R(3)>>)
    /\ nodes[2].value = Scalar(Int2R(2))
    /\ nodes[3].value = Vec(<<Int2R(1), Int2R(4), Int2R(9)>>)
    /\ nodes[1].grad = Vec(<<Int2R(2), Int2R(4), Int2R(6)>>)

\* C14: for a bare scalar k, a vector leaf v and y = k * v, after
\* sum(y).backward() every component of v.grad is k, and the leaf made for k
\* receives no gradient: its grad and has_grad are as constructed.
C14_ScaledVector ==
    (/\ pc = "done"
     /\ Len(nodes) = 4
     /\ nodes[3].backward_f = "*"
     /\ is_vec(nodes[1].value))
        => /\ nodes[3].children = <<2, 1>>
           /\ nodes[1].has_grad
           /\ nodes[1].grad = Fill(nodes[1].value, nodes[2].value.d[1])
           /\ ~nodes[2].has_grad
           /\ nodes[2].grad = Scalar(One)

\* sum(2 * v).backward() has run for a vector v of three components
C14_Witness ==
    /\ pc = "done"
    /\ Len(nodes) = 4
    /\ nodes[3].backward_f = "*"
    /\ nodes[2].value = Scalar(Int2R(2))
    /\ is_vec(nodes[1].value)
    /\ Len(nodes[1].value.d) = 3
    /\ nodes[1].grad = Vec(<<Int2R(2), Int2R(2), Int2R(2)>>)

C16_CompletedPassOnly ==
    pc \in {"aborted_read", "aborted_updated"}
        => ret.err = "MissingGradient"

\* C17: a node is constructed with has_grad = false; in every step (an op
\* construction, backward() from any root, grad(), update(), printing) a
\* node with has_grad = true keeps it, and has_grad becomes true only in a
\* backward() call that visits the node.
C17_BuiltThenDifferentiated ==
    [][\A i \in 1..Len(nodes') :
          /\ i > Len(nodes) => ~nodes'[i].has_grad
          /\ (i <= Len(nodes) /\ nodes[i].has_grad) => nodes'[i].has_grad
          /\ (i <= Len(nodes) /\ ~nodes[i].has_grad /\ nodes'[i].has_grad)
                => /\ ret'.call = "backward"
                   /\ \E k \in 1..Len(ret'.val) : ret'.val[k] = i]_vars

\* a differentiated leaf has been updated, and an op built on it afterwards
\* is still Built
C17_Witness ==
    /\ ret.call = "update"
    /\ ret.err = "none"
    /\ nodes[ret.node].has_grad
    /\ \E j \in Ids : /\ ~nodes[j].has_grad
                      /\ nodes[j].children # <<>>
                      /\ nodes[j].children[1] = ret.node

\* C18: under any sequence of handle creations, copies, op constructions
\* and handle drops, every node reachable through child links from a node
\* that a live handle owns is alive, so backward() from a live handle reads
\* and writes live nodes only; and a released node is referenced by no
\* handle and by no live parent, while a node with neither is released.
C18_ReachableAlive ==
    LET Alive(i)   == nodes[i].use_count > 0
        Parents(i) == {j \in Ids : Alive(j) /\ \E k \in 1..Len(nodes[j].children) :
                                                  nodes[j].children[k] = i}
    IN  /\ \A r \in Owned : \A i \in get_children(nodes, r) : Alive(i)
        /\ \A r \in Owned :
              LET b == backward(nodes, r)
              IN  \A k \in 1..Len(b.visits) : Alive(b.visits[k])
        /\ \A i \in Ids : ~Alive(i) <=> (i \notin Owned /\ Parents(i) = {})

\* backward() has just visited a leaf whose own handle was destroyed before
\* the call, in a heap where another node has been released
C18_Witness ==
    /\ ret.call = "backward"
    /\ \E k \in 1..Len(ret.val) :
          /\ ret.val[k] \notin Owned
          /\ origin[ret.val[k]] = "Value"
          /\ nodes[ret.val[k]].use_count > 0
    /\ \E j \in Ids : nodes[j].use_count = 0

C20_Idempotent ==
    ret.call = "backward"
        => LET again == backward(nodes, ret.node)
           IN  /\ again.n = nodes
               /\ again.err = ret.err
               /\ again.visits = ret.val

\* backward() has run from the root y = a * a, whose leaf a is written once
\* through each operand
C20_Witness ==
    /\ ret.call = "backward"
    /\ ret.err = "none"
    /\ nodes[ret.node].backward_f = "*"
    /\ ret.val = <<ret.node, nodes[ret.node].children[1],
                   nodes[ret.node].children[1]>>
    /\ nodes[nodes[ret.node].children[1]].grad # Ones(nodes[ret.node].value)

\* the fields of node i that a program can observe
Observed(ns, i) ==
    [value         |-> ns[i].value,
     grad          |-> ns[i].grad,
     has_grad      |-> ns[i].has_grad,
     requires_grad |-> ns[i].requires_grad,
     backward_f    |-> ns[i].backward_f,
     children      |-> ns[i].children]

\* the heap left by the handle/handle form of op f on a leaf of value a and
\* t = TempValue(x), t on the side given, followed by backward() on the
\* result if differentiated
HandleForm(f, a, x, side, differentiated) ==
    LET leaves == <<Value(a), TempValue(x)>>
        l      == IF side = "rhs" THEN 1 ELSE 2
        r      == IF side = "rhs" THEN 2 ELSE 1
        built  == IF f = "pow" THEN pow(leaves, l, r)
                  ELSE AD_BINARY_OP(leaves, f, l, r)
    IN  IF differentiated THEN backward(built, 3).n ELSE built

\* C21: for each of +, -, *, /, pow and either operand given bare as x, the
\* heap is the one the handle/handle form leaves on TempValue(x): the same
\* value, children in the same order, and after backward from the result the
\* same grad on the other operand; the lifted operand is a leaf whose
\* requires_grad is false.
C21_BareAsTempValue ==
    pc \in {"bare_rhs", "bare_lhs"} =>
        LET x    == IF ret.call = "op" THEN ret.arg[1] ELSE nodes[2].value
            side == IF pc = "bare_rhs" THEN "rhs" ELSE "lhs"
            form == HandleForm(nodes[3].backward_f, nodes[1].value, x, side,
                               nodes[3].has_grad)
        IN  /\ \A i \in 1..3 : Observed(nodes, i) = Observed(form, i)
            /\ nodes[2].value = x
            /\ nodes[2].backward_f = "leaf" /\ nodes[2].children = <<>>
            /\ ~nodes[2].requires_grad
            /\ nodes[3].children = (IF side = "rhs" THEN <<1, 2>> ELSE <<2, 1>>)

\* r = 3 - a for a = 1/2, r.backward(): a.grad() is -1
C21_Witness ==
    /\ pc = "bare_lhs"
    /\ nodes[3].backward_f = "-"
    /\ nodes[1].value = Scalar(Rat(1, 2))
    /\ nodes[2].value = Scalar(Int2R(3))
    /\ nodes[3].value = Scalar(Rat(5, 2))
    /\ ret.call = "grad"
    /\ ret = Ret("grad", 1, <<>>, "none", <<Scalar(Int2R(-1))>>)

\* C22: printing a handle changes no field of any node (value, grad,
\* has_grad, requires_grad, children, op tag), whether the graph was
\* differentiated before or not, and makes or releases no node.
C22_PrintFrame ==
    [][ret'.call = "print" =>
          /\ Len(nodes') = Len(nodes)
          /\ \A i \in Ids :
                 /\ Observed(nodes', i) = Observed(nodes, i)
                 /\ nodes'[i].op_name = nodes[i].op_name
                 /\ nodes'[i].use_count = nodes[i].use_count]_vars

\* r = a + 3 printed after a.backward(): a is Differentiated and r is Built,
\* before the print and after it
C22_Witness ==
    /\ ret.call = "print"
    /\ nodes[ret.node].backward_f = "+"
    /\ Len(ret.val) = 3
    /\ ~nodes[ret.node].has_grad
    /\ \E i \in Ids : nodes[i].has_grad

\* the text the op that made node n is printed with: its tag, with the
\* bracket that opens the operand of a function
Symbol(n) ==
    CASE n.backward_f \in {"+", "-", "*", "/"} -> n.op_name
      [] n.backward_f \in {"pow", "neg"} -> n.op_name
      [] n.backward_f \in {"relu", "sum"} -> n.op_name \o "("
      [] n.backward_f \in {"expand_scalar", "expand_vector"} -> "expand("

RECURSIVE Expression(_, _)

\* the symbols of the ops of the expression tree below node v, each at the
\* place of the sub-expression it produced: between its two operands for a
\* two-operand op, before its operand for a one-operand op
Expression(ns, v) ==
    LET n == ns[v]
    IN  IF n.children = <<>> THEN <<>>
        ELSE IF Len(n.children) = 2
        THEN Expression(ns, n.children[1]) \o <<Symbol(n)>>
                \o Expression(ns, n.children[2])
        ELSE <<Symbol(n)>> \o Expression(ns, n.children[1])

\* the op symbols of a printed string, in the order printed
Symbols(str) ==
    LET texts == SelectSeq(str, LAMBDA piece : piece.text \notin {"", ")"})
    IN  [k \in 1..Len(texts) |-> texts[k].text]

\* C23: the string printed for a handle holds the symbol of every op node
\* below the handle, inputs of expand, sum, relu, pow and arithmetic nodes
\* included, each at the place of the sub-expression it produced.
C23_WholeTree ==
    ret.call = "print" => Symbols(ret.val) = Expression(nodes, ret.node)

\* the nodes whose backward() the last call of backward entered
Visited == {ret.val[k] : k \in 1..Len(ret.val)}

\* C24: after r.backward() ends without an exception, a node reachable from
\* r other than r was written (grad assigned, has_grad set, its closure
\* called) if and only if its requires_grad is true; a child whose
\* requires_grad is false keeps its grad and has_grad, and grad() on it
\* fails as before the call.
C24_WrittenIffRequiresGrad ==
    [][(ret'.call = "backward" /\ ret'.err = "none") =>
          LET r       == ret'.node
              entered == {ret'.val[k] : k \in 1..Len(ret'.val)}
          IN  \A i \in get_children(nodes, r) \ {r} :
                  IF nodes[i].requires_grad
                  THEN nodes'[i].has_grad /\ i \in entered
                  ELSE /\ nodes'[i] = nodes[i]
                       /\ i \notin entered
                       /\ grad(nodes', i) = grad(nodes, i)]_vars

\* s = sum((2 * x) * W) for bare 2 and W, after s.backward(): the two
\* temporaries are reachable from s and still have no gradient
C24_Witness ==
    /\ pc = "done"
    /\ ret.call = "backward" /\ ret.err = "none" /\ ret.node = 6
    /\ origin = <<"Value", "TempValue", "op", "TempValue", "op", "op">>
    /\ get_children(nodes, 6) = 1..6
    /\ Visited = {1, 3, 5, 6}
    /\ \A i \in {2, 4} :
           ~nodes[i].has_grad /\ grad(nodes, i).err = "MissingGradient"
    /\ \A i \in {1, 3, 5, 6} : nodes[i].has_grad

RECURSIVE Preorder(_, _)
RECURSIVE PreorderAll(_, _)

\* the nodes below v in the order: v, then all that is below its left
\* operand, then all that is below its right operand; a node is listed once
\* for each way down to it, and operands without requires_grad are left out
Preorder(ns, v) == <<v>> \o PreorderAll(ns, ns[v].children)

PreorderAll(ns, children) ==
    IF children = <<>> THEN <<>>
    ELSE (IF ns[Head(children)].requires_grad
          THEN Preorder(ns, Head(children)) ELSE <<>>)
            \o PreorderAll(ns, Tail(children))

\* the gradient node v, of grad ns[v].grad, gives to its k-th operand
OperandGrad(ns, v, k) ==
    IF ns[v].backward_f \in {"+", "-", "*", "/"}
    THEN (IF k = 1 THEN lhs_grad(ns, v) ELSE rhs_grad(ns, v))
    ELSE IF ns[v].backward_f = "pow" THEN base_grad(ns, v)
    ELSE child_grad(ns, v)

RECURSIVE LastPathGrad(_, _, _)

\* the contribution to node i of one path from v alone: the path that takes,
\* at each node, the last operand (the right one, if both do) that leads
\* to i
LastPathGrad(ns, v, i) ==
    IF v = i THEN ns[v].grad
    ELSE LET leads == {k \in 1..Len(ns[v].children) :
                          /\ ns[ns[v].children[k]].requires_grad
                          /\ i \in get_children(ns, ns[v].children[k])}
             k     == CHOOSE m \in leads : \A o \in leads : o <= m
             child == ns[v].children[k]
         IN  LastPathGrad([ns EXCEPT ![child].grad = OperandGrad(ns, v, k)],
                          child, i)

\* C25: in one backward() the operands of each node are taken left first,
\* all that is below the left one before the right one, and each write to a
\* grad replaces the one before; so a node below both operands of a
\* two-operand op ends with the contribution of the path through the right
\* operand alone, not the sum: 3 for a in (a * 2) + (a * 3), 1 in a + a.
C25_LeftThenRightOverwrites ==
    [][(ret'.call = "backward" /\ ret'.err = "none") =>
          LET r == ret'.node
          IN  /\ ret'.val = Preorder(nodes, r)
              /\ \A i \in get_children(nodes, r) \ {r} :
                     nodes[i].requires_grad =>
                         nodes'[i].grad = LastPathGrad(nodes, r, i)]_vars

\* y = (a * 2) + (a * 3) for a = 2, y.backward(), a.grad(): 3, not 5
C25_Witness ==
    /\ pc = "y"
    /\ nodes[1].value = Scalar(Int2R(2))
    /\ Len(nodes) = 6
    /\ nodes[3].backward_f = "*" /\ nodes[2].value = Scalar(Int2R(2))
    /\ nodes[5].backward_f = "*" /\ nodes[4].value = Scalar(Int2R(3))
    /\ nodes[6].backward_f = "+" /\ nodes[6].children = <<3, 5>>
    /\ nodes[6].has_grad /\ nodes[3].grad = Scalar(One)
    /\ ret.call = "grad"
    /\ ret = Ret("grad", 1, <<>>, "none", <<Scalar(Int2R(3))>>)

RECURSIVE Flips(_, _, _)

\* how many times m_has_grad of node i goes from false to true while
\* backward() is entered on the nodes of visits in turn, each entry assigning
\* m_has_grad = true; has[j] is m_has_grad of node j before the first entry
Flips(has, visits, i) ==
    IF visits = <<>> THEN 0
    ELSE (IF Head(visits) = i /\ ~has[i] THEN 1 ELSE 0)
            + Flips([has EXCEPT ![Head(visits)] = TRUE], Tail(visits), i)

\* C26: in every backward() invocation the has_grad of each node reached goes
\* from false to true exactly once, also when the node is an input of several
\* parents and when the graph was differentiated before.
C26_OnceFalseToTrue ==
    [][ret'.call = "backward" =>
          \A i \in {ret'.val[k] : k \in 1..Len(ret'.val)} :
              Flips([j \in Ids |-> nodes[j].has_grad], ret'.val, i) = 1]_vars

\* C27: the temporary leaf made for a bare operand is owned by the children
\* list of the result: it is alive after the op call has returned, with no
\* handle of its own, for as long as the result is alive and no longer; so
\* the backward and printing closures of a live node find a live node at
\* child index 0 and at child index 1.
C27_TemporaryOwnedByResult ==
    \A j \in Ids :
        \A k \in 1..Len(nodes[j].children) :
            LET c == nodes[j].children[k]
            IN  /\ nodes[j].use_count > 0 => nodes[c].use_count > 0
                /\ origin[c] = "TempValue" =>
                      /\ c \notin Owned
                      /\ nodes[c].use_count = (IF nodes[j].use_count > 0 THEN 1 ELSE 0)

\* r = a + 3; the handle a is destroyed; r.backward(): the closure of r reads
\* both children, of which the temporary is owned by r alone
C27_Witness ==
    /\ ret.call = "backward"
    /\ ret.node \in Owned
    /\ Len(nodes[ret.node].children) = 2
    /\ LET lhs == nodes[ret.node].children[1]
           rhs == nodes[ret.node].children[2]
       IN  /\ origin[rhs] = "TempValue"
           /\ nodes[rhs].use_count = 1
           /\ lhs \notin Owned /\ nodes[lhs].use_count = 1
           /\ nodes[lhs].has_grad

\* C28: the children list of a node is the one its constructor was given:
\* no later call (an op that takes the node as operand, backward, update,
\* printing, a copy or a drop of a handle) changes it; every child was
\* constructed before its parent, so no node is reachable from itself.
C28_ChildrenFixed ==
    [][/\ Len(nodes') >= Len(nodes)
       /\ \A i \in Ids : nodes'[i].children = nodes[i].children
       /\ \A i \in 1..Len(nodes') :
              \A k \in 1..Len(nodes'[i].children) : nodes'[i].children[k] < i
       /\ \A i \in 1..Len(nodes') :
              \A k \in 1..Len(nodes'[i].children) :
                  i \notin get_children(nodes', nodes'[i].children[k])]_vars

\* r = a * a; r.backward(); a.update(1); the handle a is destroyed; r is
\* printed: r still has the children <<a, a>>
C28_Witness ==
    /\ ret.call = "print"
    /\ nupd = 1
    /\ nodes[ret.node].children = <<1, 1>>
    /\ nodes[ret.node].has_grad
    /\ 1 \notin Owned
    /\ nodes[1].use_count = 2
    /\ nodes[1].value # Scalar(Int2R(2))

RECURSIVE Paths(_, _, _)
RECURSIVE PathsAll(_, _, _)

\* the number of paths from node v down to node i along the children lists
\* (an operand given twice counts twice) through children that require a
\* gradient
Paths(ns, v, i) ==
    IF v = i THEN 1 ELSE PathsAll(ns, ns[v].children, i)

PathsAll(ns, children, i) ==
    IF children = <<>> THEN 0
    ELSE (IF ns[Head(children)].requires_grad
          THEN Paths(ns, Head(children), i) ELSE 0)
         + PathsAll(ns, Tail(children), i)

\* how many times backward() of node i was entered
Entered(visits, i) == Cardinality({k \in 1..Len(visits) : visits[k] = i})

\* C29 as stated: every backward() on a root ends, and each node is entered
\* once for every path of nodes that require a gradient from the root to it
C29_OncePerPath ==
    [][ret'.call = "backward" =>
          \A i \in Ids : Entered(ret'.val, i) = Paths(nodes, ret'.node, i)]_vars

\* C29: every backward() on a root that ends without an exception has
\* entered each node once for every path of nodes that require a gradient
\* from the root to it: a node shared by k paths is entered k times and so
\* is everything below it
C29_OncePerPathUnlessThrown ==
    [][(ret'.call = "backward" /\ ret'.err = "none") =>
          \A i \in Ids : Entered(ret'.val, i) = Paths(nodes, ret'.node, i)]_vars

\* z = y * y with y = u op w and u, w made from a: z.backward() enters y
\* twice and a four times
C29_Witness ==
    /\ ret.call = "backward"
    /\ ret.err = "none"
    /\ \E y \in Ids :
          /\ nodes[ret.node].children = <<y, y>>
          /\ Entered(ret.val, y) = 2
          /\ Paths(nodes, ret.node, y) = 2
    /\ Entered(ret.val, 1) = 4
    /\ Paths(nodes, ret.node, 1) = 4
    /\ Len(ret.val) > Cardinality(Visited)

\* AD_ENSURE_REQUIRES_GRAD(v) returns from the closure of the op node v
EarlyReturn(ns, v) == ns[v].backward_f # "leaf" /\ ~ns[v].requires_grad

\* C30: every node made by an op requires a gradient whatever its operands
\* are, also when all of them are TempValue leaves; a node that does not
\* require one is a TempValue leaf without children; so no closure of an op
\* ever returns at AD_ENSURE_REQUIRES_GRAD.
C30_OpsRequireGrad ==
    \A i \in Ids :
        /\ origin[i] = "op" => nodes[i].requires_grad
        /\ ~nodes[i].requires_grad
             => /\ origin[i] = "TempValue"
                /\ nodes[i].children = <<>>
                /\ nodes[i].backward_f = "leaf"
        /\ ~EarlyReturn(nodes, i)

\* r = t op u on two TempValue handles; r.backward() runs the closure of r,
\* which enters neither operand
C30_Witness ==
    /\ origin = <<"TempValue", "TempValue", "op">>
    /\ nodes[3].children = <<1, 2>>
    /\ ~nodes[1].requires_grad /\ ~nodes[2].requires_grad
    /\ nodes[3].requires_grad
    /\ ret.call = "backward"
    /\ ret.node = 3
    /\ ret.val = <<3>>
    /\ nodes[3].has_grad
    /\ ~nodes[1].has_grad /\ ~nodes[2].has_grad

====
